---- MODULE Spec2Model ----
(***************************************************************************)
(* CloudFlareManager (src/CloudFlareManager.ts): the DNS reconciler        *)
(* validateAndFixDnsRecords, the health aggregation of                     *)
(* comprehensiveHealthCheck, the infrastructure validation of              *)
(* validateConnectreeInfrastructure, the deployment preparation of         *)
(* prepareDeploymentEnvironment, the readiness report of                   *)
(* generateDeploymentReport, bulkCreateDnsRecords and the validating       *)
(* commands of main, as state machines whose steps are the stretches of    *)
(* code between two awaits.                                                *)
(*                                                                         *)
(* An optional value (a `?:` field, an `undefined` argument) is a set with *)
(* at most one element: {} is undefined, {v} is the value v.               *)
(***************************************************************************)
EXTENDS Integers, Sequences, FiniteSets, TLC

\* ------------------------------------------------------------------------
\* Bounds of the model
\* ------------------------------------------------------------------------
MaxExpected == 2
MaxExisting == 2
MaxCertificates == 1

\* ------------------------------------------------------------------------
\* Values
\* ------------------------------------------------------------------------
Calls == {1, 2}

\* record values: two names, a type that allows several records per name
\* (A) and one that does not (CNAME), two contents, two ttls
Names == {"connectree.cc", "api.connectree.cc"}
Types == {"A", "CNAME"}
Contents == {"origin-1", "origin-2"}
Ttls == {0, 1}

None == {}
Some(v) == {v}
Opt(S) == {None} \cup {Some(v) : v \in S}
Get(o) == CHOOSE v \in o : TRUE

\* `o ?? d`
Coalesce(o, d) == IF o = None THEN d ELSE Get(o)

\* truthiness of an optional number: undefined and 0 are falsy
TruthyNum(o) == o # None /\ Get(o) # 0

\* ------------------------------------------------------------------------
\* Records
\* ------------------------------------------------------------------------
\* the element type of the expectedRecords parameter
ExpectedRecordType ==
    [name : Names, type : Types, content : Contents,
     proxied : Opt(BOOLEAN), ttl : Opt(Ttls)]

\* interface DnsRecord without its id: the fields the reconciler reads
DnsRecordType ==
    [name : Names, type : Types, content : Contents, proxied : BOOLEAN, ttl : Ttls]

\* a proxied address record with automatic ttl
BaseExpected ==
    [name |-> "connectree.cc", type |-> "A", content |-> "origin-1",
     proxied |-> Some(TRUE), ttl |-> Some(1)]

\* the record the provider holds when BaseExpected is in place
BaseExisting ==
    [name |-> "connectree.cc", type |-> "A", content |-> "origin-1",
     proxied |-> TRUE, ttl |-> 1]

FieldNames == {"name", "type", "content", "proxied", "ttl"}
Deviation(r, base) == Cardinality({f \in FieldNames : r[f] # base[f]})

\* the inputs of the model: the records that differ from the base record in
\* at most one field
ExpectedRecord == {e \in ExpectedRecordType : Deviation(e, BaseExpected) <= 1}
ExistingRecord == {r \in DnsRecordType : Deviation(r, BaseExisting) <= 1}

withId(r, id) ==
    [id |-> id, name |-> r.name, type |-> r.type, content |-> r.content,
     proxied |-> r.proxied, ttl |-> r.ttl]

SeqsUpTo(S, n) == UNION {[1..k -> S] : k \in 0..n}

\* what makeApiRequest resolves to: response.result is the list the
\* provider sent, or `{}` (not an array) under dryRun
ApiList(items) == [isArray |-> TRUE, items |-> items]
DryRunResult == [isArray |-> FALSE, items |-> <<>>]

\* `x.length`: undefined on the dry-run object
Length(result) == IF result.isArray THEN Some(Len(result.items)) ELSE None
\* `x.length > 0`: false when the length is undefined
LengthPositive(result) == Length(result) # None /\ Get(Length(result)) > 0

\* ------------------------------------------------------------------------
\* State
\* ------------------------------------------------------------------------
VARIABLES
    config,           \* this.config: dryRun and zoneId
    zoneRecords,      \* the remote zone's DNS records (provider side)
    workerScripts,    \* the account's worker scripts (provider side)
    pagesProjects,    \* the account's Pages projects (provider side)
    zones,            \* the account's zones (provider side)
    certificatePacks, \* the zone's certificate packs (provider side)
    kvNamespaces,     \* the account's KV namespaces (provider side)
    r2Buckets,        \* the account's R2 buckets (provider side)
    d1Databases,      \* the account's D1 databases (provider side)
    workerSecrets,    \* the worker's secrets, a set of name and value
                      \* (provider side)
    rec,              \* per call of validateAndFixDnsRecords: its frame (the
                      \* locals, the position pc, and as history the positions
                      \* flagged, the write calls issued, the number of
                      \* listDnsRecords calls issued and what the call listed)
    hc,               \* the frame of the comprehensiveHealthCheck call
    infra,            \* the frame of the validateConnectreeInfrastructure call
    prep,             \* the frame of the prepareDeploymentEnvironment call
    report,           \* the frame of the generateDeploymentReport call
    bulk,             \* the frame of the bulkCreateDnsRecords call
    cli,              \* main: the command line, the position and the exit code
    overall,          \* the frame of the getOverallStatus call
    put               \* the frame of the putSecret, bulkPutSecrets or
                      \* deleteSecret call

account == <<workerScripts, pagesProjects, zones, certificatePacks>>
\* the frames of the operations that call the ones above
callers == <<prep, report, bulk, cli>>
\* what the account holds besides, and the frames of the operations on it
stores == <<kvNamespaces, r2Buckets, d1Databases, workerSecrets>>
utilities == <<overall, put>>
vars == <<config, stores, utilities, zoneRecords, account, rec, hc, infra, callers>>

IdleFrame ==
    [pc |-> "idle", expectedRecords |-> <<>>, autoFix |-> FALSE,
     existingRecords |-> ApiList(<<>>), i |-> 0, issues |-> <<>>,
     flagged |-> <<>>, writes |-> <<>>, reads |-> 0, listed |-> None,
     result |-> None]

\* a read issued inside a Promise.all or behind a `.catch`: not yet issued,
\* in flight, resolved with a value or rejected; failed records that the
\* request itself failed, also when a `.catch` turned that into a value
unissued == [state |-> "unissued", value |-> ApiList(<<>>), failed |-> FALSE]
pending == [state |-> "pending", value |-> ApiList(<<>>), failed |-> FALSE]
resolved(value) == [state |-> "resolved", value |-> value, failed |-> FALSE]
rejected == [state |-> "rejected", value |-> ApiList(<<>>), failed |-> TRUE]
caught == [state |-> "resolved", value |-> ApiList(<<>>), failed |-> TRUE]

IdleHealth ==
    [pc |-> "idle", tasks |-> <<>>, probes |-> <<>>, result |-> None]

\* (writesWhenRejected is history: the number of write calls the DNS
\* validation of the call had issued when the call rejected)
IdleInfra ==
    [pc |-> "idle", tasks |-> <<>>, result |-> None, writesWhenRejected |-> 0]

\* the options parameter; an option left out reads as false
NoOptions ==
    [validateDns |-> FALSE, autoFixDns |-> FALSE, ensurePages |-> FALSE,
     validateWorkers |-> FALSE]

\* the locals of prepareDeploymentEnvironment and, as history, how its
\* getPagesProject, createPagesProject and listWorkers calls ended
\* ("unissued", "pending", "ok", "notFound", "error")
IdlePrep ==
    [pc |-> "idle", environment |-> "production", options |-> NoOptions,
     issues |-> <<>>, warnings |-> <<>>,
     pagesExists |-> FALSE, pagesDomains |-> <<>>,
     workersValid |-> FALSE, existingWorkers |-> <<>>,
     dnsValid |-> FALSE, dnsIssues |-> <<>>,
     getPagesProject |-> "unissued", createPagesProject |-> "unissued",
     listWorkers |-> "unissued", result |-> None]

IdleReport ==
    [pc |-> "idle", environment |-> "production", result |-> None]

\* the locals of bulkCreateDnsRecords and, as history, the create calls issued
IdleBulk ==
    [pc |-> "idle", records |-> <<>>, zoneId |-> None, i |-> 0, writes |-> <<>>]

\* process.argv as main reads it, main's position and the exit code
IdleCli ==
    [pc |-> "idle", command |-> "", fix |-> FALSE, environment |-> None,
     exitCode |-> None]

NoCaller ==
    /\ prep = IdlePrep
    /\ report = IdleReport
    /\ bulk = IdleBulk
    /\ cli = IdleCli

\* the locals of getOverallStatus: the six reads of its Promise.all
IdleOverall ==
    [pc |-> "idle", tasks |-> <<>>, result |-> None]

\* the locals of bulkPutSecrets (putSecret and deleteSecret have one name):
\* the entries of `secrets`, the position and, as history, the shell
\* commands the call executed
IdlePut ==
    [pc |-> "idle", secrets |-> <<>>, i |-> 0, executed |-> <<>>]

\* no namespace, bucket, database or secret, and neither operation called
NoUtility ==
    /\ kvNamespaces = <<>>
    /\ r2Buckets = <<>>
    /\ d1Databases = <<>>
    /\ workerSecrets = {}
    /\ overall = IdleOverall
    /\ put = IdlePut

\* ------------------------------------------------------------------------
\* validateAndFixDnsRecords: classification
\* ------------------------------------------------------------------------
\* find with the type test left out: r => r.name === expected.name
findByName(existingRecords, expected) ==
    LET hits == {k \in 1..Len(existingRecords) :
                    existingRecords[k].name = expected.name}
    IN IF hits = {} THEN 0 ELSE CHOOSE k \in hits : \A j \in hits : k <= j

\* existingRecords.find(r => r.name === expected.name && r.type === expected.type):
\* the index of the first match, 0 when there is none
find(existingRecords, expected) ==
    LET hits == {k \in 1..Len(existingRecords) :
                    /\ existingRecords[k].name = expected.name
                    /\ existingRecords[k].type = expected.type}
    IN IF hits = {} THEN 0 ELSE CHOOSE k \in hits : \A j \in hits : k <= j

\* the condition with `existing.content !== expected` (the record instead of
\* its content) as first test, which no record passes
differsFromRecord(existing, expected) ==
    \/ TRUE
    \/ existing.proxied # Coalesce(expected.proxied, FALSE)
    \/ (TruthyNum(expected.ttl) /\ existing.ttl # Get(expected.ttl))

\* the condition of the `else if`
differs(existing, expected) ==
    \/ existing.content # expected.content
    \/ existing.proxied # Coalesce(expected.proxied, FALSE)
    \/ (TruthyNum(expected.ttl) /\ existing.ttl # Get(expected.ttl))

\* the branch the loop body takes for one expected record
classify(existingRecords, expected) ==
    LET k == find(existingRecords, expected)
    IN IF k = 0 THEN "missing"
       ELSE IF differs(existingRecords[k], expected) THEN "incorrect"
       ELSE "unflagged"

\* the object literal passed to createDnsRecord / updateDnsRecord
payload(expected) ==
    [name |-> expected.name, type |-> expected.type, content |-> expected.content,
     proxied |-> expected.proxied, ttl |-> expected.ttl]

missingIssue(expected, autoFix) ==
    [type |-> "missing", record |-> expected, expected |-> None,
     action |-> IF autoFix THEN "CREATE" ELSE "REQUIRES_CREATION"]

incorrectIssue(existing, expected, autoFix) ==
    [type |-> "incorrect", record |-> existing, expected |-> Some(expected),
     action |-> IF autoFix THEN "UPDATE" ELSE "REQUIRES_UPDATE"]

\* the call `this.createDnsRecord({...}, zone)` of the missing branch
createCall(expected) ==
    [op |-> "createDnsRecord", id |-> None, record |-> payload(expected)]

\* the update addressed to `expected.id`, which a desired record does not have
updateCallExpectedId(existing, expected) ==
    [op |-> "updateDnsRecord", id |-> None, record |-> payload(expected)]

\* the call `this.updateDnsRecord(existing.id, {...}, zone)` of the incorrect branch
updateCall(existing, expected) ==
    [op |-> "updateDnsRecord", id |-> Some(existing.id), record |-> payload(expected)]

\* issues.unshift(issue)
unshift(issues, issue) == <<issue>> \o issues

\* issues.push(issue)
push(issues, issue) == Append(issues, issue)

\* The for-loop from position i on, run until it suspends on a write
\* (next = "await"), falls off the end (next = "return") or throws
\* (next = "throw": `find` is not a function of the dry-run object).
\* flagged lists the positions of expectedRecords that pushed an issue.
RECURSIVE runLoop(_, _, _, _, _, _)
runLoop(expectedRecords, existingRecords, autoFix, i, issues, flagged) ==
    IF i > Len(expectedRecords)
    THEN [next |-> "return", i |-> i, issues |-> issues, flagged |-> flagged,
          write |-> None]
    ELSE IF ~existingRecords.isArray
    THEN [next |-> "throw", i |-> i, issues |-> issues, flagged |-> flagged,
          write |-> None]
    ELSE
      LET expected == expectedRecords[i]
          k == find(existingRecords.items, expected)
          kind == classify(existingRecords.items, expected)
      IN CASE kind = "missing" ->
                LET iss == push(issues, missingIssue(expected, autoFix))
                    flg == Append(flagged, i)
                IN IF autoFix
                   THEN [next |-> "await", i |-> i, issues |-> iss, flagged |-> flg,
                         write |-> Some(createCall(expected))]
                   ELSE runLoop(expectedRecords, existingRecords, autoFix, i + 1, iss, flg)
           [] kind = "incorrect" ->
                LET existing == existingRecords.items[k]
                    iss == push(issues, incorrectIssue(existing, expected, autoFix))
                    flg == Append(flagged, i)
                IN IF autoFix
                   THEN [next |-> "await", i |-> i, issues |-> iss, flagged |-> flg,
                         write |-> Some(updateCall(existing, expected))]
                   ELSE runLoop(expectedRecords, existingRecords, autoFix, i + 1, iss, flg)
           [] OTHER ->
                runLoop(expectedRecords, existingRecords, autoFix, i + 1, issues, flagged)

\* the tail of validateAndFixDnsRecords: valid, fixed and the return value
returnValue(issues, autoFix) ==
    [valid |-> Len(issues) = 0,
     issues |-> issues,
     fixed |-> autoFix /\ Len(issues) > 0]

\* the frame after the loop ran from position i with the given snapshot
resume(frame, existingRecords, i) ==
    LET r == runLoop(frame.expectedRecords, existingRecords, frame.autoFix, i,
                     frame.issues, frame.flagged)
        f == [frame EXCEPT !.existingRecords = existingRecords, !.i = r.i,
                           !.issues = r.issues, !.flagged = r.flagged]
    IN CASE r.next = "await" ->
              [f EXCEPT !.pc = "writing",
                        !.writes = Append(@, [op |-> Get(r.write).op,
                                              id |-> Get(r.write).id,
                                              record |-> Get(r.write).record,
                                              outcome |-> "pending"])]
         [] r.next = "throw" -> [f EXCEPT !.pc = "rejected"]
         [] OTHER ->
              [f EXCEPT !.pc = "done",
                        !.result = Some(returnValue(r.issues, frame.autoFix))]

\* ------------------------------------------------------------------------
\* The provider (ResourceStateClient side of the DNS calls)
\* ------------------------------------------------------------------------
freshId(records) ==
    IF records = <<>> THEN 1
    ELSE 1 + (CHOOSE m \in {records[k].id : k \in 1..Len(records)} :
                 \A k \in 1..Len(records) : records[k].id <= m)

\* POST /zones/{zone}/dns_records
applyCreate(records, record) ==
    Append(records,
           [id |-> freshId(records), name |-> record.name, type |-> record.type,
            content |-> record.content,
            proxied |-> Coalesce(record.proxied, FALSE),
            ttl |-> Coalesce(record.ttl, 1)])

\* PUT /zones/{zone}/dns_records/{id}
applyUpdate(records, id, record) ==
    [k \in 1..Len(records) |->
        IF records[k].id = id
        THEN [id |-> id, name |-> record.name, type |-> record.type,
              content |-> record.content,
              proxied |-> Coalesce(record.proxied, FALSE),
              ttl |-> Coalesce(record.ttl, 1)]
        ELSE records[k]]

\* (a PUT to an id the zone does not hold changes nothing)
applyWrite(records, w) ==
    IF w.op = "createDnsRecord" THEN applyCreate(records, w.record)
    ELSE IF w.id = None THEN records
    ELSE applyUpdate(records, Get(w.id), w.record)

\* ------------------------------------------------------------------------
\* validateAndFixDnsRecords: the steps of one call c
\* ------------------------------------------------------------------------
\* the outcome of the write call issued last
setOutcome(writes, outcome) ==
    [writes EXCEPT ![Len(writes)].outcome = outcome]

\* entry: resolve the zone, throw without one, else await listDnsRecords
enter(expectedRecords, zoneId, autoFix) ==
    LET zone == IF zoneId # None THEN zoneId ELSE config.zoneId
    IN [IdleFrame EXCEPT !.expectedRecords = expectedRecords,
                         !.autoFix = autoFix,
                         !.reads = IF zone = None THEN 0 ELSE 1,
                         !.pc = IF zone = None THEN "rejected" ELSE "listing"]

\* a call of validateAndFixDnsRecords from outside the class
validateAndFixDnsRecords(c, expectedRecords, zoneId, autoFix) ==
    /\ rec[c].pc = "idle"
    /\ rec' = [rec EXCEPT ![c] = enter(expectedRecords, zoneId, autoFix)]
    /\ UNCHANGED <<config, stores, utilities, zoneRecords, account, hc, infra, callers>>

\* listDnsRecords resolved: the snapshot is taken and the loop runs to its
\* first await
listDnsRecordsResolved(c) ==
    /\ rec[c].pc = "listing"
    /\ LET response == IF config.dryRun THEN DryRunResult ELSE ApiList(zoneRecords)
       IN rec' = [rec EXCEPT ![c] =
                    resume([rec[c] EXCEPT !.listed = Some(response)], response, 1)]
    /\ UNCHANGED <<config, stores, utilities, zoneRecords, account, hc, infra, callers>>

\* listDnsRecords rejected (transport error): the call rejects
listDnsRecordsRejected(c) ==
    /\ rec[c].pc = "listing"
    /\ ~config.dryRun
    /\ rec' = [rec EXCEPT ![c].pc = "rejected"]
    /\ UNCHANGED <<config, stores, utilities, zoneRecords, account, hc, infra, callers>>

\* the write resolved, followed by a fresh listDnsRecords for the rest of the loop
writeResolvedRelist(c) ==
    /\ rec[c].pc = "writing"
    /\ zoneRecords' = applyWrite(zoneRecords, rec[c].writes[Len(rec[c].writes)])
    /\ rec' = [rec EXCEPT ![c] =
                 resume([rec[c] EXCEPT !.writes = setOutcome(@, "ok")],
                        ApiList(zoneRecords'), rec[c].i + 1)]
    /\ UNCHANGED <<config, stores, utilities, account, hc, infra, callers>>

\* the write resolved unless the infrastructure validation around the call
\* has rejected, which would cancel the rest of the loop
writeResolvedUnlessRejected(c) ==
    /\ rec[c].pc = "writing"
    /\ infra.pc # "rejected"
    /\ zoneRecords' = applyWrite(zoneRecords, rec[c].writes[Len(rec[c].writes)])
    /\ rec' = [rec EXCEPT ![c] =
                 resume([rec[c] EXCEPT !.writes = setOutcome(@, "ok")],
                        rec[c].existingRecords, rec[c].i + 1)]
    /\ UNCHANGED <<config, stores, utilities, account, hc, infra, callers>>

\* the pending createDnsRecord / updateDnsRecord resolved: the provider
\* applied it; the loop goes on with the next expected record
writeResolved(c) ==
    /\ rec[c].pc = "writing"
    /\ zoneRecords' = applyWrite(zoneRecords, rec[c].writes[Len(rec[c].writes)])
    /\ rec' = [rec EXCEPT ![c] =
                 resume([rec[c] EXCEPT !.writes = setOutcome(@, "ok")],
                        rec[c].existingRecords, rec[c].i + 1)]
    /\ UNCHANGED <<config, stores, utilities, account, hc, infra, callers>>

\* the pending write rejected and the error left uncaught: the call rejects
writeRejectedUncaught(c) ==
    /\ rec[c].pc = "writing"
    /\ rec' = [rec EXCEPT ![c] =
                 [rec[c] EXCEPT !.writes = setOutcome(@, "failed"), !.pc = "rejected"]]
    /\ UNCHANGED <<config, stores, utilities, zoneRecords, account, hc, infra, callers>>

\* the pending write rejected: caught and logged; the loop goes on
writeRejected(c) ==
    /\ rec[c].pc = "writing"
    /\ rec' = [rec EXCEPT ![c] =
                 resume([rec[c] EXCEPT !.writes = setOutcome(@, "failed")],
                        rec[c].existingRecords, rec[c].i + 1)]
    /\ UNCHANGED <<config, stores, utilities, zoneRecords, account, hc, infra, callers>>

\* ------------------------------------------------------------------------
\* Specification of one reconciliation call
\* ------------------------------------------------------------------------
\* the provider holds no two records with one name, type and content, and
\* no two CNAME records with one name
Holdable(s) ==
    \A a, b \in 1..Len(s) :
        (a # b /\ s[a].name = s[b].name /\ s[a].type = s[b].type) =>
            (s[a].content # s[b].content /\ s[a].type # "CNAME")

ExistingLists ==
    {[k \in 1..Len(s) |-> withId(s[k], k)] :
        s \in {t \in SeqsUpTo(ExistingRecord, MaxExisting) : Holdable(t)}}

ExpectedLists == SeqsUpTo(ExpectedRecord, MaxExpected)

Configs == [dryRun : BOOLEAN, zoneId : Opt({"zone1"})]

Init ==
    /\ config \in Configs
    /\ zoneRecords \in ExistingLists
    /\ workerScripts = <<>>
    /\ pagesProjects = <<>>
    /\ zones = <<>>
    /\ certificatePacks = <<>>
    /\ rec = [c \in Calls |-> IdleFrame]
    /\ hc = IdleHealth
    /\ infra = IdleInfra
    /\ NoCaller
    /\ NoUtility

Next ==
    \/ \E expectedRecords \in ExpectedLists, autoFix \in BOOLEAN :
          validateAndFixDnsRecords(1, expectedRecords, None, autoFix)
    \/ listDnsRecordsResolved(1)
    \/ listDnsRecordsRejected(1)
    \/ writeResolved(1)
    \/ writeRejected(1)

Spec == Init /\ [][Next]_vars

\* ------------------------------------------------------------------------
\* Properties of one validateAndFixDnsRecords call (call 1 of Spec)
\* ------------------------------------------------------------------------
R == rec[1]
Returned == R.pc = "done"
Result == Get(R.result)
\* the record list the call read
Listed == Get(R.listed).items
HasListed == R.listed # None /\ Get(R.listed).isArray

Key(r) == <<r.name, r.type>>

\* the observed records with the key of e, by position
MatchesOf(e, observed) == {k \in 1..Len(observed) : Key(observed[k]) = Key(e)}
FirstMatchOf(e, observed) ==
    CHOOSE k \in MatchesOf(e, observed) : \A j \in MatchesOf(e, observed) : k <= j

\* the observed record r has exactly the five fields of the desired record e
SameRecord(e, r) ==
    /\ e.name = r.name /\ e.type = r.type /\ e.content = r.content
    /\ e.proxied = Some(r.proxied) /\ e.ttl = Some(r.ttl)

ObservedEqualsDesired ==
    /\ HasListed
    /\ \A j \in 1..Len(R.expectedRecords) :
          \E k \in 1..Len(Listed) : SameRecord(R.expectedRecords[j], Listed[k])
    /\ \A k \in 1..Len(Listed) :
          \E j \in 1..Len(R.expectedRecords) : SameRecord(R.expectedRecords[j], Listed[k])

DistinctKeys(records) ==
    \A a, b \in 1..Len(records) : a # b => Key(records[a]) # Key(records[b])

NothingToFix ==
    /\ R.writes = <<>>
    /\ Returned => (Result.issues = <<>> /\ Result.valid /\ ~Result.fixed)

\* C1 as claimed: whenever the record set read equals the desired set D
\* exactly, a call with autoFix = true returns issues = [], valid = true,
\* fixed = false and issues no create and no update call, for every D.
C1_IdempotentForEveryDesiredSet ==
    (R.autoFix /\ ObservedEqualsDesired) => NothingToFix

\* C1 amended: the same, for the desired sets whose (name, type) keys are
\* pairwise distinct.
C1_IdempotentForDistinctKeys ==
    (R.autoFix /\ ObservedEqualsDesired /\ DistinctKeys(R.expectedRecords))
        => NothingToFix

C1_Witness ==
    /\ Returned /\ R.autoFix /\ ObservedEqualsDesired
    /\ DistinctKeys(R.expectedRecords)
    /\ Len(R.expectedRecords) = 2
    /\ Result.valid

\* the issue type recorded for position j of expectedRecords
IssueTypeAt(j) ==
    IF \E k \in 1..Len(R.flagged) : R.flagged[k] = j
    THEN R.issues[CHOOSE k \in 1..Len(R.flagged) : R.flagged[k] = j].type
    ELSE "unflagged"

\* the rule of the claim: a ttl that is set, to any value, is compared
ClaimedDiffers(m, e) ==
    \/ m.content # e.content
    \/ m.proxied # (IF e.proxied # None THEN Get(e.proxied) ELSE FALSE)
    \/ (e.ttl # None /\ m.ttl # Get(e.ttl))

ClaimedType(e, observed) ==
    IF MatchesOf(e, observed) = {} THEN "missing"
    ELSE IF ClaimedDiffers(observed[FirstMatchOf(e, observed)], e) THEN "incorrect"
    ELSE "unflagged"

\* C2: every desired record e is classified missing iff no observed record
\* has its (name, type); incorrect iff the first such record m differs in
\* content, or in proxied (against e.proxied ?? false), or e.ttl is set and
\* differs from m.ttl; and is not flagged otherwise.
C2_ClassificationRule ==
    (Returned /\ HasListed) =>
        \A j \in 1..Len(R.expectedRecords) :
            IssueTypeAt(j) = ClaimedType(R.expectedRecords[j], Listed)

StrictlyIncreasing(s) == \A a, b \in 1..Len(s) : a < b => s[a] < s[b]

\* the desired record an issue is about
IssueSubject(issue) ==
    IF issue.expected # None THEN Get(issue.expected) ELSE issue.record

\* C3: the returned issues hold at most one issue per desired record, each
\* of type missing or incorrect, in the order of the desired list; so there
\* are never more issues than desired records.
C3_ClassificationTotality ==
    Returned =>
        /\ Len(Result.issues) = Len(R.flagged)
        /\ Len(Result.issues) <= Len(R.expectedRecords)
        /\ StrictlyIncreasing(R.flagged)
        /\ \A k \in 1..Len(R.flagged) :
              /\ R.flagged[k] \in 1..Len(R.expectedRecords)
              /\ k <= Len(Result.issues)
              /\ Result.issues[k].type \in {"missing", "incorrect"}
              /\ IssueSubject(Result.issues[k]) = R.expectedRecords[R.flagged[k]]

C3_Witness ==
    /\ Returned
    /\ Len(Result.issues) = 2
    /\ Result.issues[1].type # Result.issues[2].type
    /\ R.expectedRecords[1] # R.expectedRecords[2]

FieldsOf(e) ==
    [name |-> e.name, type |-> e.type, content |-> e.content,
     proxied |-> e.proxied, ttl |-> e.ttl]

\* the write call w is the one the issue calls for
WriteForIssue(w, issue, j) ==
    LET e == R.expectedRecords[j]
    IN /\ w.record = FieldsOf(e)
       /\ \/ /\ issue.type = "missing" /\ issue.action = "CREATE"
             /\ w.op = "createDnsRecord"
          \/ /\ issue.type = "incorrect" /\ issue.action = "UPDATE"
             /\ w.op = "updateDnsRecord"
             /\ w.id = Some(Listed[FirstMatchOf(e, Listed)].id)

\* C4: with autoFix the write calls are, one for one and in order, a create
\* for every missing issue and an update to the matched record's id for
\* every incorrect issue, and the actions are CREATE / UPDATE; without
\* autoFix no write call is ever issued and the actions are
\* REQUIRES_CREATION / REQUIRES_UPDATE.
C4_WriteSet ==
    /\ ~R.autoFix => R.writes = <<>>
    /\ Len(R.writes) <= Len(R.issues)
    /\ Returned =>
          IF R.autoFix
          THEN /\ Len(R.writes) = Len(Result.issues)
               /\ \A k \in 1..Len(R.writes) :
                     WriteForIssue(R.writes[k], Result.issues[k], R.flagged[k])
          ELSE \A k \in 1..Len(Result.issues) :
                  Result.issues[k].action =
                      IF Result.issues[k].type = "missing" THEN "REQUIRES_CREATION"
                      ELSE "REQUIRES_UPDATE"

C4_Witness ==
    /\ Returned /\ R.autoFix
    /\ Len(R.writes) = 2
    /\ R.writes[1].op = "updateDnsRecord"
    /\ R.writes[2].op = "createDnsRecord"

C4_WitnessNoFix ==
    /\ Returned /\ ~R.autoFix
    /\ Len(Result.issues) = 2
    /\ R.writes = <<>>

\* the kind of discrepancy the code's rule finds for e in a record list
KindIn(e, observed) ==
    IF MatchesOf(e, observed) = {} THEN "missing"
    ELSE LET m == observed[FirstMatchOf(e, observed)]
         IN IF \/ m.content # e.content
               \/ m.proxied # (IF e.proxied # None THEN Get(e.proxied) ELSE FALSE)
               \/ (e.ttl # None /\ Get(e.ttl) # 0 /\ m.ttl # Get(e.ttl))
            THEN "incorrect" ELSE "unflagged"

\* the positions of the desired list that are discrepant against the list
\* read at the start of the call, in order
Positions(n) == [j \in 1..n |-> j]
DiscrepantPositions ==
    LET Discrepant(j) == KindIn(R.expectedRecords[j], Listed) # "unflagged"
    IN SelectSeq(Positions(Len(R.expectedRecords)), Discrepant)

\* C5: the result is a function of the one record list read at the start:
\* issues are the discrepancies against that list (whatever the writes of
\* the call did), valid = no issue, fixed = autoFix and some issue; so
\* fixed = true comes with valid = false.
C5_PreFixSnapshot ==
    Returned =>
        /\ R.reads = 1
        /\ HasListed => R.flagged = DiscrepantPositions
        /\ HasListed =>
              \A k \in 1..Len(R.flagged) :
                  /\ k <= Len(Result.issues)
                  /\ Result.issues[k].type = KindIn(R.expectedRecords[R.flagged[k]], Listed)
        /\ Len(Result.issues) = Len(R.flagged)
        /\ Result.valid = (Len(Result.issues) = 0)
        /\ Result.fixed = (R.autoFix /\ Len(Result.issues) > 0)
        /\ Result.fixed => ~Result.valid

\* a call whose first write was applied by the provider and made the zone
\* hold a record with the key of a later desired record, which the result
\* still reports as missing
C5_Witness ==
    /\ Returned /\ R.autoFix
    /\ Len(R.writes) = 2
    /\ R.writes[1].outcome = "ok"
    /\ R.writes[1].op = "createDnsRecord"
    /\ R.writes[2].op = "createDnsRecord"
    /\ Key(R.expectedRecords[1]) = Key(R.expectedRecords[2])
    /\ Result.fixed /\ ~Result.valid

SomeWriteFailed == \E k \in 1..Len(R.writes) : R.writes[k].outcome = "failed"

\* C6: with autoFix, after a create or update failed the call does not
\* reject; no position is written twice (no retry); the remaining desired
\* records are still classified and written; the returned issues still
\* hold the issue of the failed write.
C6_ContinueOnError ==
    (R.autoFix /\ SomeWriteFailed) =>
        /\ R.pc \in {"writing", "done"}
        /\ StrictlyIncreasing(R.flagged)
        /\ Len(R.writes) = Len(R.flagged)
        /\ \A k \in 1..Len(R.writes) :
              R.writes[k].record = FieldsOf(R.expectedRecords[R.flagged[k]])
        /\ Returned =>
              /\ R.flagged = DiscrepantPositions
              /\ Len(Result.issues) = Len(R.writes)
              /\ \A k \in 1..Len(R.writes) :
                    R.writes[k].outcome = "failed" =>
                        IssueSubject(Result.issues[k]) = R.expectedRecords[R.flagged[k]]

C6_Witness ==
    /\ Returned /\ R.autoFix
    /\ Len(R.writes) = 2
    /\ R.writes[1].outcome = "failed"
    /\ Len(Result.issues) = 2

DesiredKeys == {Key(R.expectedRecords[j]) : j \in 1..Len(R.expectedRecords)}

\* C7: no issue has type extra; every issue is about a (name, type) of the
\* desired list; a listed record whose key is not desired is in no issue.
C7_ExtraNeverFlagged ==
    Returned =>
        /\ \A k \in 1..Len(Result.issues) :
              /\ Result.issues[k].type # "extra"
              /\ Key(Result.issues[k].record) \in DesiredKeys
        /\ HasListed =>
              \A x \in 1..Len(Listed) :
                  Key(Listed[x]) \notin DesiredKeys =>
                      \A k \in 1..Len(Result.issues) : Result.issues[k].record # Listed[x]

C7_Witness ==
    /\ Returned /\ HasListed
    /\ \E x \in 1..Len(Listed) : Key(Listed[x]) \notin DesiredKeys
    /\ Len(Result.issues) > 0
    /\ Len(R.expectedRecords) > 0

\* ------------------------------------------------------------------------
\* Reads of the account and the zone
\* ------------------------------------------------------------------------
\* what the provider holds for a list call
remoteList(t) ==
    CASE t = "listWorkers" -> workerScripts
      [] t = "listPagesProjects" -> pagesProjects
      [] t = "listZones" -> zones
      [] t = "listCertificates" -> certificatePacks
      [] t = "listDnsRecords" -> zoneRecords
      [] t = "listKVNamespaces" -> kvNamespaces

\* listCertificates and listDnsRecords throw 'Zone ID is required' without a zone
needsZone(t) == t \in {"listCertificates", "listDnsRecords"}

\* no read is wrapped: a failed certificate or DNS read rejects like the others
failSoftNever(t) == FALSE

\* every read is wrapped: a failed required read yields [] as well
failSoftAlways(t) == TRUE

\* the reads wrapped in `.catch(() => [])`
failSoft(t) == t \in {"listCertificates", "listDnsRecords"}

settleRejected(t) == IF failSoft(t) THEN caught ELSE rejected

settleResolved(t) ==
    resolved(IF config.dryRun THEN DryRunResult ELSE ApiList(remoteList(t)))

\* the promise right after the call: in flight, or already failed for want
\* of a zone
issue(t) ==
    IF needsZone(t) /\ config.zoneId = None THEN settleRejected(t) ELSE pending

AllResolved(tasks, ts) == \A t \in ts : tasks[t].state = "resolved"
SomeRejected(tasks, ts) == \E t \in ts : tasks[t].state = "rejected"

\* ------------------------------------------------------------------------
\* comprehensiveHealthCheck
\* ------------------------------------------------------------------------
\* the reads of the Promise.all
HealthReads == {"listWorkers", "listPagesProjects", "listZones", "listCertificates"}

\* the four probes after the reads, in order
ProbeTargets ==
    << [kind |-> "pages", name |-> "connectree"],
       [kind |-> "worker", name |-> "connectree-api"],
       [kind |-> "pages", name |-> "connectree"],
       [kind |-> "worker", name |-> "connectree-api-staging"] >>

\* getPagesProject / getWorker finds the resource
exists(target) ==
    IF target.kind = "pages"
    THEN \E k \in 1..Len(pagesProjects) : pagesProjects[k].name = target.name
    ELSE \E k \in 1..Len(workerScripts) : workerScripts[k].name = target.name

\* `x.length >= 0 ? 'healthy' : 'unhealthy'`
requiredStatusNonNegative(list) ==
    IF Length(list) # None /\ Get(Length(list)) >= 0 THEN "healthy" ELSE "unhealthy"

\* `x.length > 0 ? 'healthy' : 'unhealthy'`
requiredStatus(list) == IF LengthPositive(list) THEN "healthy" ELSE "unhealthy"

\* `certificates.length > 0 ? 'healthy' : 'degraded'`
optionalStatus(list) == IF LengthPositive(list) THEN "healthy" ELSE "degraded"

\* the services object
healthServices(tasks) ==
    [workers |-> [status |-> requiredStatus(tasks["listWorkers"].value),
                  count |-> Length(tasks["listWorkers"].value)],
     pages |-> [status |-> requiredStatus(tasks["listPagesProjects"].value),
                count |-> Length(tasks["listPagesProjects"].value)],
     dns |-> [status |-> requiredStatus(tasks["listDnsRecords"].value),
              records |-> Length(tasks["listDnsRecords"].value)],
     ssl |-> [status |-> optionalStatus(tasks["listCertificates"].value),
              certificates |-> Length(tasks["listCertificates"].value)]]

ServiceNames == {"workers", "pages", "dns", "ssl"}

\* the two tests in the other order: degraded is looked for first
overallStatusDegradedFirst(services) ==
    LET unhealthyServices ==
            Cardinality({n \in ServiceNames : services[n].status = "unhealthy"})
        degradedServices ==
            Cardinality({n \in ServiceNames : services[n].status = "degraded"})
    IN IF degradedServices > 0 THEN "degraded"
       ELSE IF unhealthyServices > 0 THEN "unhealthy"
       ELSE "healthy"

\* the overall status from the counts of unhealthy and degraded services
overallStatus(services) ==
    LET unhealthyServices ==
            Cardinality({n \in ServiceNames : services[n].status = "unhealthy"})
        degradedServices ==
            Cardinality({n \in ServiceNames : services[n].status = "degraded"})
    IN IF unhealthyServices > 0 THEN "unhealthy"
       ELSE IF degradedServices > 0 THEN "degraded"
       ELSE "healthy"

healthResult(tasks, probes) ==
    [status |-> overallStatus(healthServices(tasks)),
     services |-> healthServices(tasks),
     environments |->
        [production |-> [frontend |-> probes[1], api |-> probes[2]],
         staging |-> [frontend |-> probes[3], api |-> probes[4]]]]

NothingRuns ==
    /\ hc.pc = "idle" /\ infra.pc = "idle" /\ \A c \in Calls : rec[c].pc = "idle"
    /\ prep.pc = "idle" /\ report.pc = "idle" /\ bulk.pc = "idle" /\ cli.pc = "idle"
    /\ overall.pc = "idle" /\ put.pc = "idle"

\* entry: the four reads of the Promise.all are issued
enterHealthCheck ==
    [IdleHealth EXCEPT
        !.pc = "gathering",
        !.tasks = [t \in HealthReads \cup {"listDnsRecords"} |->
                      IF t \in HealthReads THEN issue(t) ELSE unissued]]

\* a call of comprehensiveHealthCheck from outside the class
comprehensiveHealthCheck ==
    /\ NothingRuns
    /\ hc' = enterHealthCheck
    /\ UNCHANGED <<config, stores, utilities, zoneRecords, account, rec, infra, callers>>

\* one read of the Promise.all resolved
healthReadResolved(t) ==
    /\ hc.pc = "gathering"
    /\ hc.tasks[t].state = "pending"
    /\ hc' = [hc EXCEPT !.tasks[t] = settleResolved(t)]
    /\ UNCHANGED <<config, stores, utilities, zoneRecords, account, rec, infra, callers>>

\* one read of the Promise.all failed
healthReadRejected(t) ==
    /\ hc.pc = "gathering"
    /\ hc.tasks[t].state = "pending"
    /\ ~config.dryRun
    /\ hc' = [hc EXCEPT !.tasks[t] = settleRejected(t)]
    /\ UNCHANGED <<config, stores, utilities, zoneRecords, account, rec, infra, callers>>

\* the Promise.all resolved: listDnsRecords().catch(() => []) is issued
healthGathered ==
    /\ hc.pc = "gathering"
    /\ AllResolved(hc.tasks, HealthReads)
    /\ LET dns == issue("listDnsRecords")
       IN hc' = [hc EXCEPT !.tasks["listDnsRecords"] = dns,
                           !.pc = IF dns.state = "pending" THEN "listingDns"
                                  ELSE IF dns.state = "resolved" THEN "probing"
                                  ELSE "rejected"]
    /\ UNCHANGED <<config, stores, utilities, zoneRecords, account, rec, infra, callers>>

\* the Promise.all rejected: the catch block logs and rethrows
healthGatherRejected ==
    /\ hc.pc = "gathering"
    /\ SomeRejected(hc.tasks, HealthReads)
    /\ hc' = [hc EXCEPT !.pc = "rejected"]
    /\ UNCHANGED <<config, stores, utilities, zoneRecords, account, rec, infra, callers>>

\* the DNS record read settled
healthDnsListed(ok) ==
    /\ hc.pc = "listingDns"
    /\ ~ok => ~config.dryRun
    /\ LET dns == IF ok THEN settleResolved("listDnsRecords")
                  ELSE settleRejected("listDnsRecords")
       IN hc' = [hc EXCEPT !.tasks["listDnsRecords"] = dns,
                           !.pc = IF dns.state = "resolved" THEN "probing"
                                  ELSE "rejected"]
    /\ UNCHANGED <<config, stores, utilities, zoneRecords, account, rec, infra, callers>>

\* checkPagesHealth / checkWorkerHealth returned ok: true when the get found
\* the resource, false when it threw (not found, or a transport error); under
\* dryRun the get cannot throw. After the fourth probe the result is built.
healthProbed(ok) ==
    /\ hc.pc = "probing"
    /\ LET target == ProbeTargets[Len(hc.probes) + 1]
           probes == Append(hc.probes, ok)
       IN /\ ok => (config.dryRun \/ exists(target))
          /\ ~ok => ~config.dryRun
          /\ hc' = IF Len(probes) < Len(ProbeTargets)
                   THEN [hc EXCEPT !.probes = probes]
                   ELSE [hc EXCEPT !.probes = probes,
                                   !.pc = "done",
                                   !.result = Some(healthResult(hc.tasks, probes))]
    /\ UNCHANGED <<config, stores, utilities, zoneRecords, account, rec, infra, callers>>

\* ------------------------------------------------------------------------
\* validateConnectreeInfrastructure
\* ------------------------------------------------------------------------
\* the expected DNS records for ConnecTree
expectedDnsRecords ==
    << [name |-> "connectree.cc", type |-> "CNAME",
        content |-> "connectree.pages.dev", proxied |-> Some(TRUE), ttl |-> Some(1)],
       [name |-> "www.connectree.cc", type |-> "CNAME",
        content |-> "connectree.pages.dev", proxied |-> Some(TRUE), ttl |-> Some(1)],
       [name |-> "staging.connectree.cc", type |-> "CNAME",
        content |-> "connectree.pages.dev", proxied |-> Some(TRUE), ttl |-> Some(1)],
       [name |-> "api.connectree.cc", type |-> "CNAME",
        content |-> "connectree-api.mehya-ashani.workers.dev",
        proxied |-> Some(TRUE), ttl |-> Some(1)],
       [name |-> "api-staging.connectree.cc", type |-> "CNAME",
        content |-> "connectree-api-staging.mehya-ashani.workers.dev",
        proxied |-> Some(TRUE), ttl |-> Some(1)] >>

\* the reads of the Promise.all, next to the validateAndFixDnsRecords call
InfraReads == {"listPagesProjects", "listWorkers", "listCertificates"}

expectedWorkers == {"connectree-api", "connectree-api-staging"}

\* pages.find((p) => p.name === 'connectree'): the index of the first, or 0
findProject(pages, name) ==
    LET hits == {k \in 1..Len(pages) : pages[k].name = name}
    IN IF hits = {} THEN 0 ELSE CHOOSE k \in hits : \A j \in hits : k <= j

\* the overall verdict of the infrastructure validation
infraOverall(dnsValidation, pagesValid, workersValid, sslValid) ==
    IF dnsValidation.valid /\ pagesValid /\ workersValid /\ sslValid THEN "healthy"
    ELSE IF (~dnsValidation.valid /\ Len(dnsValidation.issues) <= 2) \/ ~sslValid
    THEN "degraded"
    ELSE "unhealthy"

\* the code after the Promise.all
infraResult(dnsValidation, pages, workers, certificates) ==
    LET p == findProject(pages.items, "connectree")
        domains == IF p = 0 THEN <<>> ELSE pages.items[p].domains
        pagesValid == p # 0 /\ Len(domains) > 0
        existingWorkers == [k \in 1..Len(workers.items) |-> workers.items[k].name]
        workersValid ==
            \A name \in expectedWorkers :
                \E k \in 1..Len(existingWorkers) : existingWorkers[k] = name
        sslValid == LengthPositive(certificates)
    IN [dns |-> [valid |-> dnsValidation.valid, issues |-> dnsValidation.issues],
        pages |-> [valid |-> pagesValid, domains |-> domains],
        workers |-> [valid |-> workersValid, workers |-> existingWorkers],
        ssl |-> [valid |-> sslValid, certificates |-> Length(certificates)],
        overall |-> infraOverall(dnsValidation, pagesValid, workersValid, sslValid)]

\* entry, after the validateAndFixDnsRecords call: the three reads are issued
enterInfrastructure ==
    [IdleInfra EXCEPT !.pc = "gathering",
                      !.tasks = [t \in InfraReads |-> issue(t)]]

\* a call of validateConnectreeInfrastructure from outside the class:
\* validateAndFixDnsRecords is called and runs up to its first await, then
\* the three reads are issued
validateConnectreeInfrastructure(autoFix) ==
    /\ NothingRuns
    /\ rec' = [rec EXCEPT ![1] = enter(expectedDnsRecords, None, autoFix)]
    /\ infra' = enterInfrastructure
    /\ UNCHANGED <<config, stores, utilities, zoneRecords, account, hc, callers>>

\* one read of the Promise.all resolved
infraReadResolved(t) ==
    /\ infra.pc = "gathering"
    /\ infra.tasks[t].state = "pending"
    /\ infra' = [infra EXCEPT !.tasks[t] = settleResolved(t)]
    /\ UNCHANGED <<config, stores, utilities, zoneRecords, account, rec, hc, callers>>

\* one read of the Promise.all failed
infraReadRejected(t) ==
    /\ infra.pc = "gathering"
    /\ infra.tasks[t].state = "pending"
    /\ ~config.dryRun
    /\ infra' = [infra EXCEPT !.tasks[t] = settleRejected(t)]
    /\ UNCHANGED <<config, stores, utilities, zoneRecords, account, rec, hc, callers>>

\* the Promise.all resolved: the verdict is computed and returned (find and
\* map throw on the dry-run object)
infraGathered ==
    /\ infra.pc = "gathering"
    /\ rec[1].pc = "done"
    /\ AllResolved(infra.tasks, InfraReads)
    /\ LET pages == infra.tasks["listPagesProjects"].value
           workers == infra.tasks["listWorkers"].value
           certificates == infra.tasks["listCertificates"].value
       IN infra' = IF pages.isArray /\ workers.isArray
                   THEN [infra EXCEPT
                           !.pc = "done",
                           !.result = Some(infraResult(Get(rec[1].result), pages,
                                                       workers, certificates))]
                   ELSE [infra EXCEPT !.pc = "rejected",
                                      !.writesWhenRejected = Len(rec[1].writes)]
    /\ UNCHANGED <<config, stores, utilities, zoneRecords, account, rec, hc, callers>>

\* the Promise.all rejected: the DNS validation or a required read failed
infraGatherRejected ==
    /\ infra.pc = "gathering"
    /\ rec[1].pc = "rejected" \/ SomeRejected(infra.tasks, InfraReads)
    /\ infra' = [infra EXCEPT !.pc = "rejected",
                              !.writesWhenRejected = Len(rec[1].writes)]
    /\ UNCHANGED <<config, stores, utilities, zoneRecords, account, rec, hc, callers>>

\* ------------------------------------------------------------------------
\* prepareDeploymentEnvironment
\* ------------------------------------------------------------------------
Environments == {"staging", "production"}

expectedPages == "connectree"

\* the expectedWorkers of prepareDeploymentEnvironment
expectedWorkersOf(environment) ==
    IF environment = "production" THEN <<"connectree-api">>
    ELSE <<"connectree-api-staging">>

getExpectedDnsRecords(environment) ==
    LET baseRecords ==
          << [name |-> "connectree.cc", type |-> "CNAME",
              content |-> "connectree.pages.dev",
              proxied |-> Some(TRUE), ttl |-> Some(1)],
             [name |-> "www.connectree.cc", type |-> "CNAME",
              content |-> "connectree.pages.dev",
              proxied |-> Some(TRUE), ttl |-> Some(1)],
             [name |-> "api.connectree.cc", type |-> "CNAME",
              content |-> "connectree-api.mehya-ashani.workers.dev",
              proxied |-> Some(TRUE), ttl |-> Some(1)] >>
    IN IF environment = "staging"
       THEN baseRecords \o
            << [name |-> "staging.connectree.cc", type |-> "CNAME",
                content |-> "connectree.pages.dev",
                proxied |-> Some(TRUE), ttl |-> Some(1)],
               [name |-> "api-staging.connectree.cc", type |-> "CNAME",
                content |-> "connectree-api-staging.mehya-ashani.workers.dev",
                proxied |-> Some(TRUE), ttl |-> Some(1)] >>
       ELSE baseRecords

\* the entries of issues (the error message that follows the colon left out)
pagesMissingIssue == "Pages project 'connectree' does not exist"
createFailedIssue == "Failed to create Pages project 'connectree'"
workersFailedIssue == "Failed to check workers"
dnsFailedIssue == "DNS validation failed"

\* the entries of warnings: the text and what it names
missingWorkersWarning(missingWorkers) ==
    [message |-> "Missing workers", detail |-> missingWorkers]
dnsIssuesWarning(dnsIssues) ==
    [message |-> "DNS issues found (use --fix to auto-repair)",
     detail |-> <<Len(dnsIssues)>>]

\* entry: the locals are set up and getPagesProject is awaited
enterPrepare(environment, options) ==
    [IdlePrep EXCEPT !.pc = "fetchingPages", !.environment = environment,
                     !.options = options, !.getPagesProject = "pending"]

\* the Pages step is over: listWorkers is awaited
afterPages(frame) ==
    [frame EXCEPT !.pc = "listingWorkers", !.listWorkers = "pending"]

\* the try block with the missing workers pushed to issues
workersStepMissingIsIssue(frame, workers, ok) ==
    IF ~ok \/ ~workers.isArray
    THEN [frame EXCEPT !.listWorkers = IF ok THEN "ok" ELSE "error",
                       !.issues = Append(@, workersFailedIssue)]
    ELSE LET existingWorkers == [k \in 1..Len(workers.items) |-> workers.items[k].name]
             Missing(name) == \A k \in 1..Len(existingWorkers) : existingWorkers[k] # name
             missingWorkers == SelectSeq(expectedWorkersOf(frame.environment), Missing)
         IN IF Len(missingWorkers) = 0
            THEN [frame EXCEPT !.listWorkers = "ok",
                               !.existingWorkers = existingWorkers,
                               !.workersValid = TRUE]
            ELSE [frame EXCEPT !.listWorkers = "ok",
                               !.existingWorkers = existingWorkers,
                               !.issues = Append(@, "Missing workers")]

\* the try / catch around listWorkers: the list resolved (ok) with workers,
\* or rejected; `workers.map` throws on the dry-run object
workersStep(frame, workers, ok) ==
    IF ~ok \/ ~workers.isArray
    THEN [frame EXCEPT !.listWorkers = IF ok THEN "ok" ELSE "error",
                       !.issues = Append(@, workersFailedIssue)]
    ELSE LET existingWorkers == [k \in 1..Len(workers.items) |-> workers.items[k].name]
             Missing(name) == \A k \in 1..Len(existingWorkers) : existingWorkers[k] # name
             missingWorkers == SelectSeq(expectedWorkersOf(frame.environment), Missing)
         IN IF Len(missingWorkers) = 0
            THEN [frame EXCEPT !.listWorkers = "ok",
                               !.existingWorkers = existingWorkers,
                               !.workersValid = TRUE]
            ELSE [frame EXCEPT !.listWorkers = "ok",
                               !.existingWorkers = existingWorkers,
                               !.warnings = Append(@, missingWorkersWarning(missingWorkers))]

\* the try / catch around validateAndFixDnsRecords, the call having
\* returned dnsValidation (returned) or thrown
dnsStep(frame, dnsValidation, returned) ==
    IF ~returned
    THEN [frame EXCEPT !.issues = Append(@, dnsFailedIssue)]
    ELSE LET f == [frame EXCEPT !.dnsValid = dnsValidation.valid,
                                !.dnsIssues = dnsValidation.issues]
         IN IF ~dnsValidation.valid /\ ~frame.options.autoFixDns
            THEN [f EXCEPT !.warnings = Append(@, dnsIssuesWarning(dnsValidation.issues))]
            ELSE f

\* ready with the warnings counted in
finishPrepareNoWarnings(frame) ==
    LET ready == /\ Len(frame.issues) = 0
                 /\ Len(frame.warnings) = 0
                 /\ (IF frame.options.validateDns THEN frame.dnsValid ELSE TRUE)
    IN [frame EXCEPT
          !.pc = "done",
          !.result = Some(
             [ready |-> ready, issues |-> frame.issues, warnings |-> frame.warnings,
              environment |-> frame.environment,
              resources |->
                 [pages |-> [exists |-> frame.pagesExists, domains |-> frame.pagesDomains],
                  workers |-> [exists |-> frame.workersValid,
                               names |-> frame.existingWorkers],
                  dns |-> [valid |-> frame.dnsValid, issues |-> frame.dnsIssues]]])]

\* the tail: ready and the return value
finishPrepare(frame) ==
    LET ready == /\ Len(frame.issues) = 0
                 /\ (IF frame.options.validateDns THEN frame.dnsValid ELSE TRUE)
    IN [frame EXCEPT
          !.pc = "done",
          !.result = Some(
             [ready |-> ready, issues |-> frame.issues, warnings |-> frame.warnings,
              environment |-> frame.environment,
              resources |->
                 [pages |-> [exists |-> frame.pagesExists, domains |-> frame.pagesDomains],
                  workers |-> [exists |-> frame.workersValid,
                               names |-> frame.existingWorkers],
                  dns |-> [valid |-> frame.dnsValid, issues |-> frame.dnsIssues]]])]

\* a call of prepareDeploymentEnvironment from outside the class
prepareDeploymentEnvironment(environment, options) ==
    /\ NothingRuns
    /\ prep' = enterPrepare(environment, options)
    /\ UNCHANGED <<config, stores, utilities, zoneRecords, account, rec, hc, infra, report, bulk, cli>>

\* getPagesProject resolved: with the project, or with `{}` under dryRun
getPagesProjectResolved ==
    /\ prep.pc = "fetchingPages"
    /\ config.dryRun \/ findProject(pagesProjects, expectedPages) # 0
    /\ LET project == pagesProjects[findProject(pagesProjects, expectedPages)]
       IN prep' = afterPages(
                     [prep EXCEPT !.getPagesProject = "ok",
                                  !.pagesExists = TRUE,
                                  !.pagesDomains = IF config.dryRun THEN <<>>
                                                   ELSE project.domains])
    /\ UNCHANGED <<config, stores, utilities, zoneRecords, account, rec, hc, infra, report, bulk, cli>>

\* getPagesProject rejected, because the provider has no such project
\* (cause = "notFound") or because the request failed (cause = "error"):
\* the catch block creates the project under ensurePages, else records an issue
getPagesProjectRejected(cause) ==
    /\ prep.pc = "fetchingPages"
    /\ ~config.dryRun
    /\ cause = "notFound" => findProject(pagesProjects, expectedPages) = 0
    /\ prep' = IF prep.options.ensurePages
               THEN [prep EXCEPT !.getPagesProject = cause,
                                 !.pc = "creatingPages",
                                 !.createPagesProject = "pending"]
               ELSE afterPages([prep EXCEPT !.getPagesProject = cause,
                                            !.issues = Append(@, pagesMissingIssue)])
    /\ UNCHANGED <<config, stores, utilities, zoneRecords, account, rec, hc, infra, report, bulk, cli>>

\* createPagesProject resolved: the provider, which had no project of the
\* name, holds it now
createPagesProjectResolved ==
    /\ prep.pc = "creatingPages"
    /\ findProject(pagesProjects, expectedPages) = 0
    /\ pagesProjects' = Append(pagesProjects, [name |-> expectedPages, domains |-> <<>>])
    /\ prep' = afterPages([prep EXCEPT !.createPagesProject = "ok",
                                       !.pagesExists = TRUE])
    /\ UNCHANGED <<config, stores, utilities, zoneRecords, workerScripts, zones, certificatePacks,
                   rec, hc, infra, report, bulk, cli>>

\* createPagesProject rejected: the inner catch block records an issue
createPagesProjectRejected ==
    /\ prep.pc = "creatingPages"
    /\ prep' = afterPages([prep EXCEPT !.createPagesProject = "error",
                                       !.issues = Append(@, createFailedIssue)])
    /\ UNCHANGED <<config, stores, utilities, zoneRecords, account, rec, hc, infra, report, bulk, cli>>

\* listWorkers settled: the workers are checked; then, under validateDns,
\* validateAndFixDnsRecords is called and runs up to its first await, else
\* the call returns
listWorkersSettled(ok) ==
    /\ prep.pc = "listingWorkers"
    /\ ~ok => ~config.dryRun
    /\ LET workers == IF config.dryRun THEN DryRunResult ELSE ApiList(workerScripts)
           f == workersStep(prep, workers, ok)
       IN IF f.options.validateDns
          THEN /\ prep' = [f EXCEPT !.pc = "validatingDns"]
               /\ rec' = [rec EXCEPT ![1] =
                             enter(getExpectedDnsRecords(f.environment), None,
                                   f.options.autoFixDns)]
          ELSE /\ prep' = finishPrepare(f)
               /\ UNCHANGED rec
    /\ UNCHANGED <<config, stores, utilities, zoneRecords, account, hc, infra, report, bulk, cli>>

\* validateAndFixDnsRecords settled: the DNS step ends and the call returns
dnsValidationSettled ==
    /\ prep.pc = "validatingDns"
    /\ rec[1].pc \in {"done", "rejected"}
    /\ prep' = finishPrepare(
                  IF rec[1].pc = "done"
                  THEN dnsStep(prep, Get(rec[1].result), TRUE)
                  ELSE dnsStep(prep, returnValue(<<>>, FALSE), FALSE))
    /\ UNCHANGED <<config, stores, utilities, zoneRecords, account, rec, hc, infra, report, bulk, cli>>

\* ------------------------------------------------------------------------
\* generateDeploymentReport
\* ------------------------------------------------------------------------
\* DNS, Pages, Workers, SSL
totalChecks == 4

\* Math.round(n / d) of a non-negative quotient: halves go up
round(n, d) == (2 * n + d) \div (2 * d)

bump(passed, check) == IF check THEN passed + 1 ELSE passed

\* the four `if (...) passedChecks++`
passedChecks(dnsValid, pagesExists, workersExists, sslHealthy) ==
    bump(bump(bump(bump(0, dnsValid), pagesExists), workersExists), sslHealthy)

readinessOf(passed) == round(passed * 100, totalChecks)

\* the thresholds with `readiness > 75` for issues
statusOfAbove75(readiness) ==
    IF readiness >= 100 THEN "ready"
    ELSE IF readiness > 75 THEN "issues"
    ELSE "failed"

statusOf(readiness) ==
    IF readiness >= 100 THEN "ready"
    ELSE IF readiness >= 75 THEN "issues"
    ELSE "failed"

dnsRecommendation ==
    "Run DNS validation with auto-fix: npx tsx CloudFlareManager.ts validate-dns --fix"
pagesRecommendation == "Ensure Pages project exists before deployment"
workersRecommendation == "Deploy Workers before Pages to ensure API availability"
sslRecommendation == "Check SSL certificate status and renew if necessary"

recommend(recommendations, failing, text) ==
    IF failing THEN Append(recommendations, text) ELSE recommendations

\* the recommendations with the Pages text pushed for missing workers too
recommendationsOfPagesTwice(dnsValid, pagesExists, workersExists, sslHealthy) ==
    recommend(recommend(recommend(recommend(<<>>,
        ~dnsValid, dnsRecommendation),
        ~pagesExists, pagesRecommendation),
        ~workersExists, pagesRecommendation),
        ~sslHealthy, sslRecommendation)

\* the four `if (!...) recommendations.push(...)`
recommendationsOf(dnsValid, pagesExists, workersExists, sslHealthy) ==
    recommend(recommend(recommend(recommend(<<>>,
        ~dnsValid, dnsRecommendation),
        ~pagesExists, pagesRecommendation),
        ~workersExists, workersRecommendation),
        ~sslHealthy, sslRecommendation)

\* the code after the two awaits (the timestamp left out)
reportResult(preparationResult, healthCheck, environment) ==
    LET dnsValid == preparationResult.resources.dns.valid
        pagesExists == preparationResult.resources.pages.exists
        workersExists == preparationResult.resources.workers.exists
        sslHealthy == healthCheck.services.ssl.status = "healthy"
        readiness ==
            readinessOf(passedChecks(dnsValid, pagesExists, workersExists, sslHealthy))
    IN [environment |-> environment,
        summary |-> [status |-> statusOf(readiness), readiness |-> readiness],
        components |->
           [dns |-> preparationResult.resources.dns,
            pages |-> preparationResult.resources.pages,
            workers |-> preparationResult.resources.workers,
            ssl |-> [status |-> healthCheck.services.ssl.status,
                     certificates |-> healthCheck.services.ssl.certificates],
            overall |-> healthCheck.status],
        recommendations |->
           recommendationsOf(dnsValid, pagesExists, workersExists, sslHealthy)]

\* the options generateDeploymentReport and `deployment-check` pass
checkOptions ==
    [validateDns |-> TRUE, autoFixDns |-> FALSE, ensurePages |-> FALSE,
     validateWorkers |-> TRUE]

\* entry: prepareDeploymentEnvironment is called and awaited
enterReport(environment) ==
    [IdleReport EXCEPT !.pc = "preparing", !.environment = environment]

\* prepareDeploymentEnvironment returned: comprehensiveHealthCheck is called
reportPrepared ==
    /\ report.pc = "preparing"
    /\ prep.pc = "done"
    /\ hc' = enterHealthCheck
    /\ report' = [report EXCEPT !.pc = "checkingHealth"]
    /\ UNCHANGED <<config, stores, utilities, zoneRecords, account, rec, infra, prep, bulk, cli>>

\* comprehensiveHealthCheck returned: the report is built and returned
reportHealthChecked ==
    /\ report.pc = "checkingHealth"
    /\ hc.pc = "done"
    /\ report' = [report EXCEPT
                     !.pc = "done",
                     !.result = Some(reportResult(Get(prep.result), Get(hc.result),
                                                  report.environment))]
    /\ UNCHANGED <<config, stores, utilities, zoneRecords, account, rec, hc, infra, prep, bulk, cli>>

\* comprehensiveHealthCheck rejected: so does generateDeploymentReport
reportHealthRejected ==
    /\ report.pc = "checkingHealth"
    /\ hc.pc = "rejected"
    /\ report' = [report EXCEPT !.pc = "rejected"]
    /\ UNCHANGED <<config, stores, utilities, zoneRecords, account, rec, hc, infra, prep, bulk, cli>>

\* ------------------------------------------------------------------------
\* main: the commands that validate
\* ------------------------------------------------------------------------
DeploymentCommands == {"deployment-check", "deployment-report", "prepare-deployment"}

\* cfManager is built with dryRun = args.includes('--dry-run')
started(command, fix, environment) ==
    [IdleCli EXCEPT !.pc = "running", !.command = command, !.fix = fix,
                    !.environment = environment]

\* process.exit(code), or the end of main for code 0
exited(frame, code) == [frame EXCEPT !.pc = "exited", !.exitCode = Some(code)]

\* case 'validate-dns'
mainValidateDns(fix) ==
    /\ NothingRuns
    /\ cli' = started("validate-dns", fix, None)
    /\ rec' = [rec EXCEPT ![1] = enter(expectedDnsRecords, None, fix)]
    /\ UNCHANGED <<config, stores, utilities, zoneRecords, account, hc, infra, prep, report, bulk>>

\* case 'validate-infrastructure'
mainValidateInfrastructure(fix) ==
    /\ NothingRuns
    /\ cli' = started("validate-infrastructure", fix, None)
    /\ rec' = [rec EXCEPT ![1] = enter(expectedDnsRecords, None, fix)]
    /\ infra' = enterInfrastructure
    /\ UNCHANGED <<config, stores, utilities, zoneRecords, account, hc, prep, report, bulk>>

\* case 'deployment-check' / 'deployment-report' / 'prepare-deployment';
\* environment is args[1] when it is staging or production
mainDeployment(command, fix, environment) ==
    /\ NothingRuns
    /\ IF environment = None
       THEN /\ cli' = exited(started(command, fix, environment), 1)
            /\ UNCHANGED <<prep, report>>
       ELSE /\ cli' = started(command, fix, environment)
            /\ prep' = enterPrepare(Get(environment),
                                    IF command = "prepare-deployment"
                                    THEN [validateDns |-> TRUE, autoFixDns |-> fix,
                                          ensurePages |-> TRUE, validateWorkers |-> TRUE]
                                    ELSE checkOptions)
            /\ report' = IF command = "deployment-report"
                         THEN enterReport(Get(environment))
                         ELSE report
    /\ UNCHANGED <<config, stores, utilities, zoneRecords, account, rec, hc, infra, bulk>>

\* the position of the call the command awaits
awaited ==
    CASE cli.command = "validate-dns" -> rec[1].pc
      [] cli.command = "validate-infrastructure" -> infra.pc
      [] cli.command = "deployment-report" -> report.pc
      [] OTHER -> prep.pc

\* the awaited call returned: the results are printed, the switch is left
\* and main ends, which ends the process with code 0
mainReturned ==
    /\ cli.pc = "running"
    /\ awaited = "done"
    /\ cli' = exited(cli, 0)
    /\ UNCHANGED <<config, stores, utilities, zoneRecords, account, rec, hc, infra, prep, report, bulk>>

\* the awaited call rejected: the catch block prints and exits with 1
mainCaught ==
    /\ cli.pc = "running"
    /\ awaited = "rejected"
    /\ cli' = exited(cli, 1)
    /\ UNCHANGED <<config, stores, utilities, zoneRecords, account, rec, hc, infra, prep, report, bulk>>

\* ------------------------------------------------------------------------
\* Specification of one health check or one infrastructure validation
\* ------------------------------------------------------------------------
\* what the account may hold
WorkerLists ==
    { <<>>,
      <<[name |-> "connectree-api"]>>,
      <<[name |-> "connectree-api-staging"]>>,
      <<[name |-> "connectree-api"], [name |-> "connectree-api-staging"]>> }

PagesLists ==
    { <<>>,
      <<[name |-> "connectree", domains |-> <<>>]>>,
      <<[name |-> "connectree", domains |-> <<"connectree.cc">>]>>,
      <<[name |-> "spacevision", domains |-> <<"spacevision.app">>]>> }

ZoneLists == { <<>>, <<[id |-> "zone1"]>> }

CertificateLists == {[k \in 1..n |-> [id |-> k]] : n \in 0..MaxCertificates}

\* the expected record as the provider holds it
asExisting(expected, id) ==
    [id |-> id, name |-> expected.name, type |-> expected.type,
     content |-> expected.content,
     proxied |-> Coalesce(expected.proxied, FALSE), ttl |-> Coalesce(expected.ttl, 1)]

\* the zone holds the first n expected records
InfraZoneLists ==
    {[k \in 1..n |-> asExisting(expectedDnsRecords[k], k)] :
        n \in 0..Len(expectedDnsRecords)}

InitHealth ==
    /\ config \in Configs
    /\ zoneRecords \in InfraZoneLists
    /\ workerScripts \in WorkerLists
    /\ pagesProjects \in PagesLists
    /\ zones \in ZoneLists
    /\ certificatePacks \in CertificateLists
    /\ rec = [c \in Calls |-> IdleFrame]
    /\ hc = IdleHealth
    /\ infra = IdleInfra
    /\ NoCaller
    /\ NoUtility

NextHealth ==
    \/ comprehensiveHealthCheck
    \/ \E t \in HealthReads : healthReadResolved(t)
    \/ \E t \in HealthReads : healthReadRejected(t)
    \/ healthGathered
    \/ healthGatherRejected
    \/ \E ok \in BOOLEAN : healthDnsListed(ok)
    \/ \E ok \in BOOLEAN : healthProbed(ok)
    \/ \E autoFix \in BOOLEAN : validateConnectreeInfrastructure(autoFix)
    \/ \E t \in InfraReads : infraReadResolved(t)
    \/ \E t \in InfraReads : infraReadRejected(t)
    \/ infraGathered
    \/ infraGatherRejected
    \/ listDnsRecordsResolved(1)
    \/ listDnsRecordsRejected(1)
    \/ writeResolved(1)
    \/ writeRejected(1)

SpecHealth == InitHealth /\ [][NextHealth]_vars

\* ------------------------------------------------------------------------
\* Properties of comprehensiveHealthCheck and validateConnectreeInfrastructure
\* ------------------------------------------------------------------------
RequiredHealthReads == {"listWorkers", "listPagesProjects", "listZones"}
RequiredInfraReads == {"listPagesProjects", "listWorkers"}

HealthStarted == hc.pc # "idle"
InfraStarted == infra.pc # "idle"

RequiredHealthReadFailed ==
    HealthStarted /\ \E t \in RequiredHealthReads : hc.tasks[t].failed
RequiredInfraReadFailed ==
    InfraStarted /\ \E t \in RequiredInfraReads : infra.tasks[t].failed

\* C8: once the worker list, the Pages project list or the zone list read of
\* comprehensiveHealthCheck has failed, the call can only reject: it never
\* completes and never holds a result, not even a partial one.
C8_RequiredReadsFailHard ==
    RequiredHealthReadFailed =>
        /\ hc.pc \in {"gathering", "rejected"}
        /\ hc.result = None

\* the hosting-project list failed after the other reads had succeeded, and
\* the call rejected
C8_Witness ==
    /\ hc.pc = "rejected"
    /\ hc.tasks["listPagesProjects"].failed
    /\ hc.tasks["listWorkers"].state = "resolved"
    /\ hc.tasks["listZones"].state = "resolved"
    /\ hc.tasks["listCertificates"].state = "resolved"
    /\ hc.result = None

HealthCertificatesFailed == HealthStarted /\ hc.tasks["listCertificates"].failed
HealthDnsFailed == HealthStarted /\ hc.tasks["listDnsRecords"].failed
InfraCertificatesFailed == InfraStarted /\ infra.tasks["listCertificates"].failed

\* C9: a failed certificate read never makes comprehensiveHealthCheck or
\* validateConnectreeInfrastructure reject (a rejected call has a failed
\* required read, or a failed DNS validation, behind it), and the result of
\* the call reports 0 certificates, as degraded / not valid; likewise a
\* failed DNS record read of comprehensiveHealthCheck never rejects the call
\* and is reported as 0 records.
C9_OptionalReadsFailSoft ==
    /\ HealthCertificatesFailed =>
          /\ hc.pc = "rejected" => RequiredHealthReadFailed
          /\ hc.pc = "done" =>
                Get(hc.result).services.ssl =
                    [status |-> "degraded", certificates |-> Some(0)]
    /\ HealthDnsFailed =>
          /\ hc.pc # "rejected"
          /\ hc.pc = "done" =>
                Get(hc.result).services.dns =
                    [status |-> "unhealthy", records |-> Some(0)]
    /\ InfraCertificatesFailed =>
          /\ infra.pc = "rejected" =>
                (RequiredInfraReadFailed \/ rec[1].pc = "rejected")
          /\ infra.pc = "done" =>
                Get(infra.result).ssl = [valid |-> FALSE, certificates |-> Some(0)]

\* the health check returned although the zone has a certificate and DNS
\* records whose reads failed
C9_Witness ==
    /\ hc.pc = "done"
    /\ config.zoneId # None
    /\ certificatePacks # <<>>
    /\ zoneRecords # <<>>
    /\ HealthCertificatesFailed
    /\ HealthDnsFailed
    /\ Get(hc.result).services.ssl.certificates = Some(0)
    /\ Get(hc.result).services.dns.records = Some(0)

\* the infrastructure validation returned although reading the zone's
\* certificate failed
C9_WitnessInfra ==
    /\ infra.pc = "done"
    /\ certificatePacks # <<>>
    /\ InfraCertificatesFailed
    /\ Get(infra.result).ssl.certificates = Some(0)

CountPositive(count) == count # None /\ Get(count) > 0

\* the length of what the read t of the health check delivered: of the
\* provider's list, or of [] when the read failed
DeliveredLength(t) ==
    IF hc.tasks[t].failed THEN Some(0)
    ELSE IF config.dryRun THEN None
    ELSE Some(Len(remoteList(t)))

\* C10: in the result of comprehensiveHealthCheck the worker, Pages and DNS
\* components are healthy when their count is > 0 and unhealthy otherwise,
\* the certificate component is healthy when its count is > 0 and degraded
\* otherwise, and every count is the length of the list that was read.
C10_ComponentThresholds ==
    hc.pc = "done" =>
        LET services == Get(hc.result).services
        IN /\ services.workers.status =
                  IF CountPositive(services.workers.count) THEN "healthy" ELSE "unhealthy"
           /\ services.pages.status =
                  IF CountPositive(services.pages.count) THEN "healthy" ELSE "unhealthy"
           /\ services.dns.status =
                  IF CountPositive(services.dns.records) THEN "healthy" ELSE "unhealthy"
           /\ services.ssl.status =
                  IF CountPositive(services.ssl.certificates) THEN "healthy" ELSE "degraded"
           /\ services.workers.count = DeliveredLength("listWorkers")
           /\ services.pages.count = DeliveredLength("listPagesProjects")
           /\ services.dns.records = DeliveredLength("listDnsRecords")
           /\ services.ssl.certificates = DeliveredLength("listCertificates")

C10_Witness ==
    /\ hc.pc = "done"
    /\ LET services == Get(hc.result).services
       IN /\ services.workers = [status |-> "healthy", count |-> Some(2)]
          /\ services.pages = [status |-> "unhealthy", count |-> Some(0)]
          /\ services.dns.status = "healthy"
          /\ services.ssl = [status |-> "degraded", certificates |-> Some(0)]
          /\ ~HealthCertificatesFailed

\* the statuses of the components of a health result
ComponentStatuses(services) == {services[n].status : n \in ServiceNames}

\* the components handed round: component n carries what p[n] carried
Reordered(services, p) == [n \in ServiceNames |-> services[p[n]]]

\* C11: the overall status of a comprehensiveHealthCheck result is unhealthy
\* iff some component is unhealthy, else degraded iff some component is
\* degraded, else healthy; and it is the same for every reordering of the
\* component statuses.
C11_StatusPrecedence ==
    hc.pc = "done" =>
        LET r == Get(hc.result)
            S == ComponentStatuses(r.services)
        IN /\ r.status = IF "unhealthy" \in S THEN "unhealthy"
                         ELSE IF "degraded" \in S THEN "degraded"
                         ELSE "healthy"
           /\ \A p \in Permutations(ServiceNames) :
                 overallStatus(Reordered(r.services, p)) = r.status

\* three healthy components and the certificates degraded with count 0
C11_Witness ==
    /\ hc.pc = "done"
    /\ LET r == Get(hc.result)
       IN /\ r.services.workers.status = "healthy"
          /\ r.services.pages.status = "healthy"
          /\ r.services.dns.status = "healthy"
          /\ r.services.ssl = [status |-> "degraded", certificates |-> Some(0)]
          /\ r.status = "degraded"

\* C12: validateConnectreeInfrastructure returns healthy iff DNS, hosting,
\* compute and certificates are all valid; otherwise degraded iff DNS is
\* invalid with at most 2 issues, or the certificates are invalid while DNS,
\* hosting and compute are all valid; otherwise unhealthy.
C12_StrictVerdict ==
    infra.pc = "done" =>
        LET r == Get(infra.result)
            allValid == r.dns.valid /\ r.pages.valid /\ r.workers.valid /\ r.ssl.valid
        IN r.overall =
              IF allValid THEN "healthy"
              ELSE IF \/ (~r.dns.valid /\ Len(r.dns.issues) <= 2)
                      \/ (~r.ssl.valid /\ r.dns.valid /\ r.pages.valid /\ r.workers.valid)
              THEN "degraded"
              ELSE "unhealthy"

\* ------------------------------------------------------------------------
\* Specification of one deployment preparation or one validating command
\* ------------------------------------------------------------------------
\* the zone holds nothing, the production records, all expected records, or
\* all of them with the first one pointing elsewhere
DeployZoneLists ==
    LET all == [k \in 1..Len(expectedDnsRecords) |-> asExisting(expectedDnsRecords[k], k)]
    IN { <<>>,
         [k \in 1..3 |-> asExisting(getExpectedDnsRecords("production")[k], k)],
         all,
         [all EXCEPT ![1].content = "spacevision.pages.dev"] }

\* the options a caller may pass (validateWorkers is never read)
OptionSets ==
    [validateDns : BOOLEAN, autoFixDns : BOOLEAN, ensurePages : BOOLEAN,
     validateWorkers : {TRUE}]

\* the account has the Pages project, with its domain, or no project
DeployPagesLists ==
    { <<>>, <<[name |-> "connectree", domains |-> <<"connectree.cc">>]>> }

InitDeploy ==
    /\ config \in Configs
    /\ zoneRecords \in DeployZoneLists
    /\ workerScripts \in WorkerLists
    /\ pagesProjects \in DeployPagesLists
    /\ zones = <<[id |-> "zone1"]>>
    /\ certificatePacks \in CertificateLists
    /\ rec = [c \in Calls |-> IdleFrame]
    /\ hc = IdleHealth
    /\ infra = IdleInfra
    /\ NoCaller
    /\ NoUtility

NextDeploy ==
    \/ \E environment \in Environments, options \in OptionSets :
          prepareDeploymentEnvironment(environment, options)
    \/ getPagesProjectResolved
    \/ \E cause \in {"notFound", "error"} : getPagesProjectRejected(cause)
    \/ createPagesProjectResolved
    \/ createPagesProjectRejected
    \/ \E ok \in BOOLEAN : listWorkersSettled(ok)
    \/ dnsValidationSettled
    \/ reportPrepared
    \/ reportHealthChecked
    \/ reportHealthRejected
    \/ \E fix \in BOOLEAN : mainValidateDns(fix)
    \/ \E fix \in BOOLEAN : mainValidateInfrastructure(fix)
    \/ \E command \in DeploymentCommands, fix \in BOOLEAN,
          environment \in Opt(Environments) :
          mainDeployment(command, fix, environment)
    \/ mainReturned
    \/ mainCaught
    \/ \E t \in HealthReads : healthReadResolved(t)
    \/ \E t \in HealthReads : healthReadRejected(t)
    \/ healthGathered
    \/ healthGatherRejected
    \/ \E ok \in BOOLEAN : healthDnsListed(ok)
    \/ \E ok \in BOOLEAN : healthProbed(ok)
    \/ \E t \in InfraReads : infraReadResolved(t)
    \/ \E t \in InfraReads : infraReadRejected(t)
    \/ infraGathered
    \/ infraGatherRejected
    \/ listDnsRecordsResolved(1)
    \/ listDnsRecordsRejected(1)
    \/ writeResolved(1)
    \/ writeRejected(1)

SpecDeploy == InitDeploy /\ [][NextDeploy]_vars

\* ------------------------------------------------------------------------
\* Properties of generateDeploymentReport
\* ------------------------------------------------------------------------
ReportDone == report.pc = "done"
Report == Get(report.result)

\* the four checks as the two calls of the report delivered them: DNS
\* valid, hosting project exists, expected compute deployments present,
\* certificate component healthy
ChecksDelivered ==
    << Get(prep.result).resources.dns.valid,
       Get(prep.result).resources.pages.exists,
       Get(prep.result).resources.workers.exists,
       Get(hc.result).services.ssl.status = "healthy" >>

Passing(checks) == Cardinality({k \in 1..Len(checks) : checks[k]})

\* C13: the report counts exactly the four checks, readiness is
\* passed / 4 * 100 rounded, hence one of 0, 25, 50, 75, 100, and status is
\* ready iff readiness >= 100 (four pass), issues iff 75 <= readiness < 100
\* (three pass), failed iff readiness < 75 (two or fewer pass).
C13_ReadinessScore ==
    ReportDone =>
        LET passed == Passing(ChecksDelivered)
            readiness == Report.summary.readiness
            status == Report.summary.status
        IN /\ readiness = 25 * passed
           /\ readiness \in {0, 25, 50, 75, 100}
           /\ status \in {"ready", "issues", "failed"}
           /\ (status = "ready") = (readiness >= 100)
           /\ (status = "ready") = (passed = 4)
           /\ (status = "issues") = (75 <= readiness /\ readiness < 100)
           /\ (status = "issues") = (passed = 3)
           /\ (status = "failed") = (readiness < 75)
           /\ (status = "failed") = (passed <= 2)

\* three of four checks pass, the DNS check being the failing one
C13_Witness ==
    /\ ReportDone
    /\ ChecksDelivered = <<FALSE, TRUE, TRUE, TRUE>>
    /\ Report.summary = [status |-> "issues", readiness |-> 75]

\* the checks as the report itself shows them
ChecksReported ==
    << Report.components.dns.valid,
       Report.components.pages.exists,
       Report.components.workers.exists,
       Report.components.ssl.status = "healthy" >>

\* the fixed recommendation of each check
RecommendationOfCheck ==
    << dnsRecommendation, pagesRecommendation, workersRecommendation,
       sslRecommendation >>

StatusRank(status) ==
    CASE status = "failed" -> 0 [] status = "issues" -> 1 [] status = "ready" -> 2

Without(recommendations, text) ==
    LET Other(x) == x # text IN SelectSeq(recommendations, Other)

\* C14: against the report made for an assignment of the four checks, the
\* report for the assignment with one failing check flipped to passing has
\* a readiness that is not lower, a status that is not worse, and the same
\* recommendations less the fixed string of the flipped check.
C14_ReadinessMonotone ==
    ReportDone =>
        \A k \in 1..4 :
            ~ChecksReported[k] =>
                LET b == [ChecksReported EXCEPT ![k] = TRUE]
                    readiness == readinessOf(passedChecks(b[1], b[2], b[3], b[4]))
                IN /\ readiness >= Report.summary.readiness
                   /\ StatusRank(statusOf(readiness)) >= StatusRank(Report.summary.status)
                   /\ recommendationsOf(b[1], b[2], b[3], b[4]) =
                         Without(Report.recommendations, RecommendationOfCheck[k])
                   /\ Len(recommendationsOf(b[1], b[2], b[3], b[4])) =
                         Len(Report.recommendations) - 1

\* a failed report that one more passing check would turn into issues
C14_Witness ==
    /\ ReportDone
    /\ ChecksReported = <<TRUE, TRUE, FALSE, FALSE>>
    /\ Report.summary = [status |-> "failed", readiness |-> 50]
    /\ Report.recommendations = <<workersRecommendation, sslRecommendation>>

\* ------------------------------------------------------------------------
\* Properties of prepareDeploymentEnvironment
\* ------------------------------------------------------------------------
PrepDone == prep.pc = "done"
Prep == Get(prep.result)

\* the DNS reconciliation of the call returned, and returned valid
DnsReturned == prep.options.validateDns /\ rec[1].pc = "done"
DnsReturnedValid == DnsReturned /\ Get(rec[1].result).valid

\* C15: every prepareDeploymentEnvironment result has ready = (issues is
\* empty) and (under validateDns: the DNS reconciliation returned valid);
\* what and how many the warnings are plays no part.
C15_ReadyRule ==
    PrepDone =>
        Prep.ready = (/\ Prep.issues = <<>>
                      /\ (prep.options.validateDns => DnsReturnedValid))

\* a ready environment with a warning, DNS validated
C15_Witness ==
    /\ PrepDone
    /\ Prep.ready
    /\ prep.options.validateDns
    /\ Len(Prep.warnings) > 0

WarningsWith(message) ==
    {k \in 1..Len(Prep.warnings) : Prep.warnings[k].message = message}
IssuesWith(text) == {k \in 1..Len(Prep.issues) : Prep.issues[k] = text}

\* the expected workers of the environment the account does not hold
MissingWorkers ==
    LET Missing(name) == \A k \in 1..Len(workerScripts) : workerScripts[k].name # name
    IN SelectSeq(expectedWorkersOf(prep.environment), Missing)

\* the worker list was delivered to the call
WorkersRead == prep.listWorkers = "ok" /\ ~config.dryRun

\* C16: when the worker list was read and an expected worker is missing,
\* exactly one warning names the missing workers and no issue is about
\* them; when validateDns is set, the DNS reconciliation returned invalid
\* and autoFixDns is not set, exactly one warning names the number of DNS
\* issues and no issue is about them; every entry of issues comes from a
\* failed hosting step, a failed worker read or a failed DNS validation.
C16_SeverityPolicy ==
    PrepDone =>
        /\ (WorkersRead /\ Len(MissingWorkers) > 0) =>
              /\ Cardinality(WarningsWith("Missing workers")) = 1
              /\ \A k \in WarningsWith("Missing workers") :
                    Prep.warnings[k].detail = MissingWorkers
              /\ IssuesWith(workersFailedIssue) = {}
        /\ (DnsReturned /\ ~DnsReturnedValid /\ ~prep.options.autoFixDns) =>
              /\ Cardinality(WarningsWith(dnsIssuesWarning(<<>>).message)) = 1
              /\ \A k \in WarningsWith(dnsIssuesWarning(<<>>).message) :
                    Prep.warnings[k].detail = <<Len(Get(rec[1].result).issues)>>
              /\ IssuesWith(dnsFailedIssue) = {}
        /\ \A k \in 1..Len(Prep.issues) :
              \/ /\ Prep.issues[k] = pagesMissingIssue
                 /\ prep.getPagesProject \in {"notFound", "error"}
              \/ /\ Prep.issues[k] = createFailedIssue
                 /\ prep.createPagesProject = "error"
              \/ /\ Prep.issues[k] = workersFailedIssue
                 /\ ~WorkersRead
              \/ /\ Prep.issues[k] = dnsFailedIssue
                 /\ rec[1].pc = "rejected"

\* both conditions at once, and no issue
C16_Witness ==
    /\ PrepDone
    /\ WorkersRead /\ Len(MissingWorkers) > 0
    /\ DnsReturned /\ ~DnsReturnedValid /\ ~prep.options.autoFixDns
    /\ Len(Prep.warnings) = 2
    /\ Prep.issues = <<>>

HostingIssues ==
    {k \in 1..Len(prep.issues) :
        prep.issues[k] \in {pagesMissingIssue, createFailedIssue}}

\* C17: createPagesProject is called only when getPagesProject found the
\* project absent and ensurePages is set; absent without ensurePages gives
\* one issue and no create; a failed create gives one issue, no warning
\* and resources.pages.exists = false; a successful fetch or create gives
\* no hosting issue and resources.pages.exists = true.
C17_HostingStep ==
    /\ prep.createPagesProject # "unissued" =>
          (prep.getPagesProject = "notFound" /\ prep.options.ensurePages)
    /\ PrepDone =>
          /\ (prep.getPagesProject = "notFound" /\ ~prep.options.ensurePages) =>
                /\ prep.createPagesProject = "unissued"
                /\ Cardinality(HostingIssues) = 1
                /\ IssuesWith(pagesMissingIssue) # {}
          /\ prep.createPagesProject = "error" =>
                /\ Cardinality(HostingIssues) = 1
                /\ IssuesWith(createFailedIssue) # {}
                /\ ~Prep.resources.pages.exists
          /\ (prep.getPagesProject = "ok" \/ prep.createPagesProject = "ok") =>
                /\ HostingIssues = {}
                /\ Prep.resources.pages.exists

\* a read of the call failed in transport: the project fetch, the worker
\* list or the DNS record list of the reconciliation
PrepReadFailed ==
    \/ prep.getPagesProject = "error"
    \/ prep.listWorkers = "error"
    \/ /\ prep.pc \in {"validatingDns", "done"}
       /\ prep.options.validateDns
       /\ rec[1].pc = "rejected" /\ rec[1].reads = 1 /\ rec[1].listed = None

\* C18: once a read of prepareDeploymentEnvironment failed in transport the
\* call is rejected: it returns no result, records no issue for the error
\* and calls no create.
C18_TransportErrorsAbort ==
    PrepReadFailed =>
        /\ prep.pc = "rejected"
        /\ prep.result = None
        /\ prep.issues = <<>>
        /\ prep.createPagesProject = "unissued"

\* ------------------------------------------------------------------------
\* Properties of main
\* ------------------------------------------------------------------------
Exited == cli.pc = "exited"
ExitCode == Get(cli.exitCode)

\* the verdict of the command that ran
Verdict ==
    CASE cli.command = "validate-dns" ->
            /\ rec[1].pc = "done"
            /\ (Get(rec[1].result).valid \/ Get(rec[1].result).fixed)
      [] cli.command = "validate-infrastructure" ->
            /\ infra.pc = "done"
            /\ Get(infra.result).overall # "unhealthy"
      [] cli.command = "deployment-report" ->
            /\ report.pc = "done"
            /\ Get(report.result).summary.status = "ready"
      [] OTHER ->
            /\ prep.pc = "done"
            /\ Get(prep.result).ready

\* C19: every validating command ends with exit code 0 iff its verdict is
\* good (validate-dns: valid or fixed; validate-infrastructure: overall not
\* unhealthy; the deployment commands: ready) and with 1 otherwise.
C19_ExitStatus ==
    Exited => (ExitCode = IF Verdict THEN 0 ELSE 1)

\* ------------------------------------------------------------------------
\* bulkCreateDnsRecords
\* ------------------------------------------------------------------------
\* the loop from position i on: createDnsRecord is called for records[i]
\* and awaited (it throws at once without a zone), or the loop is over
bulkIssue(frame, i) ==
    IF i > Len(frame.records)
    THEN [frame EXCEPT !.pc = "done", !.i = i]
    ELSE IF frame.zoneId = None /\ config.zoneId = None
    THEN [frame EXCEPT !.pc = "rejected", !.i = i]
    ELSE [frame EXCEPT !.pc = "writing", !.i = i,
                       !.writes = Append(@, [op |-> "createDnsRecord", id |-> None,
                                             record |-> frame.records[i],
                                             outcome |-> "pending"])]

\* a call of bulkCreateDnsRecords from outside the class
bulkCreateDnsRecords(records, zoneId) ==
    /\ NothingRuns
    /\ bulk' = bulkIssue([IdleBulk EXCEPT !.records = records, !.zoneId = zoneId], 1)
    /\ UNCHANGED <<config, stores, utilities, zoneRecords, account, rec, hc, infra, prep, report, cli>>

\* the pending createDnsRecord resolved (the provider took the record, or
\* nothing was sent under dryRun): the delay of 100 ms is awaited
bulkWriteResolved ==
    /\ bulk.pc = "writing"
    /\ zoneRecords' = IF config.dryRun THEN zoneRecords
                      ELSE applyWrite(zoneRecords, bulk.writes[Len(bulk.writes)])
    /\ Holdable(zoneRecords')
    /\ bulk' = [bulk EXCEPT !.pc = "pacing", !.writes = setOutcome(@, "ok")]
    /\ UNCHANGED <<config, stores, utilities, account, rec, hc, infra, prep, report, cli>>

\* the pending createDnsRecord rejected: nothing catches it, the call rejects
bulkWriteRejected ==
    /\ bulk.pc = "writing"
    /\ ~config.dryRun
    /\ bulk' = [bulk EXCEPT !.pc = "rejected", !.writes = setOutcome(@, "failed")]
    /\ UNCHANGED <<config, stores, utilities, zoneRecords, account, rec, hc, infra, prep, report, cli>>

\* the delay elapsed: the loop goes on with the next record
bulkDelayElapsed ==
    /\ bulk.pc = "pacing"
    /\ bulk' = bulkIssue(bulk, bulk.i + 1)
    /\ UNCHANGED <<config, stores, utilities, zoneRecords, account, rec, hc, infra, prep, report, cli>>

\* ------------------------------------------------------------------------
\* Specification of one bulk write loop: one reconciliation call or one
\* bulkCreateDnsRecords call
\* ------------------------------------------------------------------------
\* a call of validateAndFixDnsRecords while nothing else runs
validateAndFixDnsRecordsAlone(expectedRecords, autoFix) ==
    /\ NothingRuns
    /\ validateAndFixDnsRecords(1, expectedRecords, None, autoFix)

NextBulk ==
    \/ \E expectedRecords \in ExpectedLists, autoFix \in BOOLEAN :
          validateAndFixDnsRecordsAlone(expectedRecords, autoFix)
    \/ listDnsRecordsResolved(1)
    \/ listDnsRecordsRejected(1)
    \/ writeResolved(1)
    \/ writeRejected(1)
    \/ \E records \in ExpectedLists, zoneId \in Opt({"zone1"}) :
          bulkCreateDnsRecords(records, zoneId)
    \/ bulkWriteResolved
    \/ bulkWriteRejected
    \/ bulkDelayElapsed

SpecBulk == Init /\ [][NextBulk]_vars

\* ------------------------------------------------------------------------
\* Properties of the bulk write loops
\* ------------------------------------------------------------------------
InFlight(writes) == Cardinality({k \in 1..Len(writes) : writes[k].outcome = "pending"})

\* the step issues a write of the loop
IssuesWrite(before, after) == Len(after.writes) > Len(before.writes)

\* the step completes the write in flight with a failure
FailsWrite(before, after) ==
    /\ InFlight(before.writes) = 1
    /\ after.writes[Len(before.writes)].outcome = "failed"

\* the loop has input left after the write it issued last
InputLeft(frame, input) == frame.i < Len(input)

\* what the claim says of one step of a loop: one write in flight at most;
\* a write that is not the first of the loop is issued by the step that ends
\* a pacing delay; a failed write with input left is followed by the delay
PacedStep(before, after, input) ==
    /\ InFlight(after.writes) <= 1
    /\ (IssuesWrite(before, after) /\ before.writes # <<>>) => before.pc = "pacing"
    /\ (FailsWrite(before, after) /\ InputLeft(before, input)) => after.pc = "pacing"

\* C20: in the auto-fix loop of validateAndFixDnsRecords and in
\* bulkCreateDnsRecords at most one write is in flight, the writes are
\* issued in the order of the input list, and between the completion of a
\* write and the start of the next a pacing delay step occurs, also after a
\* failed write.
C20_SequentialPacedWrites ==
    [][ /\ PacedStep(rec[1], rec'[1], rec[1].expectedRecords)
        /\ PacedStep(bulk, bulk', bulk.records)
        /\ StrictlyIncreasing(rec'[1].flagged)
        /\ \A k \in 1..Len(rec'[1].writes) :
              rec'[1].writes[k].record =
                  FieldsOf(rec'[1].expectedRecords[rec'[1].flagged[k]])
        /\ \A k \in 1..Len(bulk'.writes) :
              bulk'.writes[k].record = bulk'.records[k] ]_vars

\* ------------------------------------------------------------------------
\* Specification of two validateAndFixDnsRecords calls on one zone
\* ------------------------------------------------------------------------
\* the api record of the zone
ApiExpected == [BaseExpected EXCEPT !.name = "api.connectree.cc"]

\* what the zone may hold when the calls start
RaceZoneLists ==
    { <<>>,
      <<asExisting(BaseExpected, 1)>>,
      <<asExisting(ApiExpected, 1)>> }

\* the desired lists the two callers pass
RaceLists ==
    { <<BaseExpected>>,
      <<[BaseExpected EXCEPT !.content = "origin-2"]>>,
      <<BaseExpected, ApiExpected>>,
      <<ApiExpected, BaseExpected>> }

InitRace ==
    /\ config \in Configs
    /\ zoneRecords \in RaceZoneLists
    /\ workerScripts = <<>>
    /\ pagesProjects = <<>>
    /\ zones = <<>>
    /\ certificatePacks = <<>>
    /\ rec = [c \in Calls |-> IdleFrame]
    /\ hc = IdleHealth
    /\ infra = IdleInfra
    /\ NoCaller
    /\ NoUtility

\* nothing orders the two calls: each starts whenever its caller calls, and
\* the steps of both interleave at the awaits
NextRace ==
    \/ \E c \in Calls, expectedRecords \in RaceLists, autoFix \in BOOLEAN :
          validateAndFixDnsRecords(c, expectedRecords, None, autoFix)
    \/ \E c \in Calls : listDnsRecordsResolved(c)
    \/ \E c \in Calls : listDnsRecordsRejected(c)
    \/ \E c \in Calls : writeResolved(c)
    \/ \E c \in Calls : writeRejected(c)

SpecRace == InitRace /\ [][NextRace]_vars

\* the list call c read
ListedBy(c) == Get(rec[c].listed).items
HasListedBy(c) == rec[c].listed # None /\ Get(rec[c].listed).isArray

\* the positions of call c's desired list, up to the one the loop reached,
\* that are discrepant against the list call c read
DiscrepantSoFar(c) ==
    LET Discrepant(j) ==
            /\ j <= rec[c].i
            /\ KindIn(rec[c].expectedRecords[j], ListedBy(c)) # "unflagged"
    IN SelectSeq(Positions(Len(rec[c].expectedRecords)), Discrepant)

\* the create calls of call c that the provider applied, by key
CreatedBy(c) ==
    {Key(rec[c].writes[k].record) :
        k \in {j \in 1..Len(rec[c].writes) :
                  /\ rec[c].writes[j].op = "createDnsRecord"
                  /\ rec[c].writes[j].outcome = "ok"}}

\* C21: each of two unserialized calls works from the one list it read when
\* it started: it reads once, never replaces that list, and what it flags
\* and writes is what is discrepant against that list, whatever the other
\* call has written to the zone since.
C21_StaleSnapshots ==
    \A c \in Calls :
        HasListedBy(c) =>
            /\ rec[c].reads = 1
            /\ rec[c].existingRecords = Get(rec[c].listed)
            /\ rec[c].flagged = DiscrepantSoFar(c)
            /\ rec[c].autoFix => Len(rec[c].writes) = Len(rec[c].flagged)
            /\ \A k \in 1..Len(rec[c].writes) :
                  Key(rec[c].writes[k].record) =
                      Key(rec[c].expectedRecords[rec[c].flagged[k]])

\* the race: both calls read a list without the key, both created a record
\* with it, and the zone holds two records with that key
C21_Witness ==
    /\ \A c \in Calls : rec[c].autoFix /\ HasListedBy(c)
    /\ \E key \in CreatedBy(1) \cap CreatedBy(2) :
          /\ \A c \in Calls :
                \A k \in 1..Len(ListedBy(c)) : Key(ListedBy(c)[k]) # key
          /\ Cardinality({k \in 1..Len(zoneRecords) : Key(zoneRecords[k]) = key}) = 2

\* ------------------------------------------------------------------------
\* Properties of bulkCreateDnsRecords on a failing create
\* ------------------------------------------------------------------------
BulkFailures == {k \in 1..Len(bulk.writes) : bulk.writes[k].outcome = "failed"}

\* C22: a failed create of bulkCreateDnsRecords is caught and skipped: the
\* call does not abort, goes on with the records after the failed one, and
\* completes having attempted a create for every record of the input.
C22_BulkContinueOnError ==
    BulkFailures # {} =>
        /\ bulk.pc # "rejected"
        /\ bulk.pc = "done" => Len(bulk.writes) = Len(bulk.records)

\* ------------------------------------------------------------------------
\* getOverallStatus
\* ------------------------------------------------------------------------
\* the reads that go through makeApiRequest and the ones that run wrangler
OverallApiReads == {"listWorkers", "listPagesProjects", "listKVNamespaces", "listZones"}
OverallWranglerReads == {"listR2Buckets", "listD1Databases"}
OverallReads == OverallApiReads \cup OverallWranglerReads

\* the output of a wrangler command under dryRun
dryRunOutput == <<[kind |-> "text", key |-> "dry-run-output", columns |-> <<>>]>>

\* `wrangler r2 bucket list`: a name line and a creation_date line per bucket
RECURSIVE r2Output(_)
r2Output(buckets) ==
    IF buckets = <<>> THEN <<>>
    ELSE <<[kind |-> "text", key |-> "name:", columns |-> <<Head(buckets).name>>],
           [kind |-> "text", key |-> "creation_date:",
            columns |-> <<Head(buckets).creation_date>>]>>
         \o r2Output(Tail(buckets))

\* the loop of listR2Buckets over the lines: a name line closes the bucket
\* before it (when that has a name) and opens one, a creation_date line
\* fills the open bucket, any other line is skipped
RECURSIVE parseR2(_, _, _)
parseR2(lines, buckets, currentBucket) ==
    IF lines = <<>>
    THEN IF currentBucket.name # "" THEN Append(buckets, currentBucket) ELSE buckets
    ELSE LET line == Head(lines)
         IN IF line.key = "name:"
            THEN parseR2(Tail(lines),
                         IF currentBucket.name # "" THEN Append(buckets, currentBucket)
                         ELSE buckets,
                         [name |-> line.columns[1], creation_date |-> ""])
            ELSE IF line.key = "creation_date:"
            THEN parseR2(Tail(lines), buckets,
                         [currentBucket EXCEPT !.creation_date = line.columns[1]])
            ELSE parseR2(Tail(lines), buckets, currentBucket)

\* `wrangler d1 list`: a table with a header, a separator, a row per
\* database and a bottom line
d1Output(databases) ==
    <<[kind |-> "top", key |-> "", columns |-> <<>>],
      [kind |-> "row", key |-> "", columns |-> <<"uuid", "name", "created_at">>],
      [kind |-> "separator", key |-> "", columns |-> <<>>]>>
    \o [k \in 1..Len(databases) |->
          [kind |-> "row", key |-> "",
           columns |-> <<databases[k].uuid, databases[k].name, databases[k].created_at>>]]
    \o <<[kind |-> "bottom", key |-> "", columns |-> <<>>]>>

\* the second loop of listD1Databases from line i on: stop at the bottom
\* line, skip lines without a column bar, take rows of three columns or more
RECURSIVE parseD1Rows(_, _, _)
parseD1Rows(lines, i, databases) ==
    IF i > Len(lines) \/ lines[i].kind = "bottom" THEN databases
    ELSE IF lines[i].kind # "row" THEN parseD1Rows(lines, i + 1, databases)
    ELSE IF Len(lines[i].columns) >= 3
    THEN parseD1Rows(lines, i + 1,
                     Append(databases, [uuid |-> lines[i].columns[1],
                                        name |-> lines[i].columns[2],
                                        created_at |-> lines[i].columns[3]]))
    ELSE parseD1Rows(lines, i + 1, databases)

\* listD1Databases: the rows after the first separator line, [] without one
parseD1(lines) ==
    LET separators == {i \in 1..Len(lines) : lines[i].kind = "separator"}
    IN IF separators = {} THEN <<>>
       ELSE parseD1Rows(lines,
                        1 + (CHOOSE i \in separators : \A j \in separators : i <= j),
                        <<>>)

\* executeWranglerCommand for the two list commands
wranglerOutput(t) ==
    IF config.dryRun THEN dryRunOutput
    ELSE IF t = "listR2Buckets" THEN r2Output(r2Buckets)
    ELSE d1Output(d1Databases)

\* listR2Buckets / listD1Databases: execSync runs inside the call, so the
\* promise is settled when the call returns
wranglerRead(t, ok) ==
    IF ~ok THEN settleRejected(t)
    ELSE IF t = "listR2Buckets"
    THEN resolved(ApiList(parseR2(wranglerOutput(t), <<>>,
                                  [name |-> "", creation_date |-> ""])))
    ELSE resolved(ApiList(parseD1(wranglerOutput(t))))

\* entry: the six calls of the Promise.all are made
enterOverallStatus(r2ok, d1ok) ==
    [IdleOverall EXCEPT
        !.pc = "gathering",
        !.tasks = [t \in OverallReads |->
                      IF t = "listR2Buckets" THEN wranglerRead(t, r2ok)
                      ELSE IF t = "listD1Databases" THEN wranglerRead(t, d1ok)
                      ELSE issue(t)]]

\* the object literal with `workers: workers.length` for every field
overallResultWorkersOnly(tasks) ==
    [workers |-> Length(tasks["listWorkers"].value),
     pages |-> Length(tasks["listWorkers"].value),
     kvNamespaces |-> Length(tasks["listWorkers"].value),
     r2Buckets |-> Length(tasks["listWorkers"].value),
     d1Databases |-> Length(tasks["listWorkers"].value),
     zones |-> Length(tasks["listWorkers"].value)]

\* the object literal getOverallStatus returns
overallResult(tasks) ==
    [workers |-> Length(tasks["listWorkers"].value),
     pages |-> Length(tasks["listPagesProjects"].value),
     kvNamespaces |-> Length(tasks["listKVNamespaces"].value),
     r2Buckets |-> Length(tasks["listR2Buckets"].value),
     d1Databases |-> Length(tasks["listD1Databases"].value),
     zones |-> Length(tasks["listZones"].value)]

\* a call of getOverallStatus from outside the class; a wrangler command
\* that fails throws out of execSync (none runs under dryRun)
getOverallStatus(r2ok, d1ok) ==
    /\ NothingRuns
    /\ config.dryRun => (r2ok /\ d1ok)
    /\ overall' = enterOverallStatus(r2ok, d1ok)
    /\ UNCHANGED <<config, stores, put, zoneRecords, account, rec, hc, infra, callers>>

\* one request of the Promise.all resolved
overallReadResolved(t) ==
    /\ overall.pc = "gathering"
    /\ overall.tasks[t].state = "pending"
    /\ overall' = [overall EXCEPT !.tasks[t] = settleResolved(t)]
    /\ UNCHANGED <<config, stores, put, zoneRecords, account, rec, hc, infra, callers>>

\* one request of the Promise.all failed
overallReadRejected(t) ==
    /\ overall.pc = "gathering"
    /\ overall.tasks[t].state = "pending"
    /\ ~config.dryRun
    /\ overall' = [overall EXCEPT !.tasks[t] = settleRejected(t)]
    /\ UNCHANGED <<config, stores, put, zoneRecords, account, rec, hc, infra, callers>>

\* the Promise.all resolved: the counts are returned
overallGathered ==
    /\ overall.pc = "gathering"
    /\ AllResolved(overall.tasks, OverallReads)
    /\ overall' = [overall EXCEPT !.pc = "done",
                                  !.result = Some(overallResult(overall.tasks))]
    /\ UNCHANGED <<config, stores, put, zoneRecords, account, rec, hc, infra, callers>>

\* the Promise.all rejected: nothing catches it, the call rejects
overallGatherRejected ==
    /\ overall.pc = "gathering"
    /\ SomeRejected(overall.tasks, OverallReads)
    /\ overall' = [overall EXCEPT !.pc = "rejected"]
    /\ UNCHANGED <<config, stores, put, zoneRecords, account, rec, hc, infra, callers>>

\* ------------------------------------------------------------------------
\* Specification of one getOverallStatus call
\* ------------------------------------------------------------------------
KvLists == { <<>>, <<[id |-> "kv1", title |-> "sessions"]>> }

R2Lists ==
    { <<>>,
      <<[name |-> "assets", creation_date |-> "2024-01-01"]>>,
      <<[name |-> "assets", creation_date |-> "2024-01-01"],
        [name |-> "backups", creation_date |-> "2024-02-01"]>> }

D1Lists ==
    { <<>>,
      <<[uuid |-> "d1-1", name |-> "connectree", created_at |-> "2024-01-01"]>> }

InitStatus ==
    /\ config \in Configs
    /\ zoneRecords = <<>>
    /\ workerScripts \in WorkerLists
    /\ pagesProjects \in DeployPagesLists
    /\ zones \in ZoneLists
    /\ certificatePacks = <<>>
    /\ kvNamespaces \in KvLists
    /\ r2Buckets \in R2Lists
    /\ d1Databases \in D1Lists
    /\ workerSecrets = {}
    /\ rec = [c \in Calls |-> IdleFrame]
    /\ hc = IdleHealth
    /\ infra = IdleInfra
    /\ NoCaller
    /\ overall = IdleOverall
    /\ put = IdlePut

NextStatus ==
    \/ \E r2ok \in BOOLEAN, d1ok \in BOOLEAN : getOverallStatus(r2ok, d1ok)
    \/ \E t \in OverallApiReads : overallReadResolved(t)
    \/ \E t \in OverallApiReads : overallReadRejected(t)
    \/ overallGathered
    \/ overallGatherRejected

SpecStatus == InitStatus /\ [][NextStatus]_vars

\* ------------------------------------------------------------------------
\* Properties of getOverallStatus
\* ------------------------------------------------------------------------
\* what the account holds behind each read
HeldBehind(t) ==
    CASE t = "listWorkers" -> workerScripts
      [] t = "listPagesProjects" -> pagesProjects
      [] t = "listKVNamespaces" -> kvNamespaces
      [] t = "listR2Buckets" -> r2Buckets
      [] t = "listD1Databases" -> d1Databases
      [] t = "listZones" -> zones

\* the count a successful read stands for: the number of resources held;
\* under dryRun nothing is read, the four requests deliver an object
\* without a length and the two wrangler reads an empty list
CountBehind(t) ==
    IF ~config.dryRun THEN Some(Len(HeldBehind(t)))
    ELSE IF t \in OverallWranglerReads THEN Some(0)
    ELSE None

CountOf(t) ==
    LET result == Get(overall.result)
    IN CASE t = "listWorkers" -> result.workers
         [] t = "listPagesProjects" -> result.pages
         [] t = "listKVNamespaces" -> result.kvNamespaces
         [] t = "listR2Buckets" -> result.r2Buckets
         [] t = "listD1Databases" -> result.d1Databases
         [] t = "listZones" -> result.zones

OverallStarted == overall.pc # "idle"
OverallReadFailed == OverallStarted /\ \E t \in OverallReads : overall.tasks[t].failed

\* C23: getOverallStatus returns a result only when all six reads have
\* succeeded, and then each count is the length of the list behind its
\* read; once one read has failed, in whatever order the reads complete,
\* the call can only reject and holds no result, not even a partial one.
C23_AllOrNothingCounts ==
    /\ overall.result # None =>
          /\ overall.pc = "done"
          /\ \A t \in OverallReads :
                /\ overall.tasks[t].state = "resolved"
                /\ ~overall.tasks[t].failed
                /\ CountOf(t) = CountBehind(t)
    /\ overall.pc = "done" => overall.result # None
    /\ OverallReadFailed =>
          /\ overall.pc \in {"gathering", "rejected"}
          /\ overall.result = None

\* a call that returned the counts of an account holding two buckets, a
\* namespace, a database and a zone
C23_Witness ==
    /\ overall.pc = "done" /\ ~config.dryRun
    /\ Get(overall.result).r2Buckets = Some(2)
    /\ Get(overall.result).kvNamespaces = Some(1)
    /\ Get(overall.result).d1Databases = Some(1)
    /\ Get(overall.result).zones = Some(1)
    /\ Get(overall.result).workers = Some(Len(workerScripts))

\* ------------------------------------------------------------------------
\* Specification of a reconciliation call followed by a second one
\* ------------------------------------------------------------------------
\* the caller's second call, made once the first has returned, with the
\* desired list of the first
validateAndFixDnsRecordsAgain(autoFix) ==
    /\ rec[1].pc = "done"
    /\ validateAndFixDnsRecords(2, rec[1].expectedRecords, None, autoFix)

\* (the first call is one that fixes)
NextRepeat ==
    \/ \E expectedRecords \in ExpectedLists :
          validateAndFixDnsRecords(1, expectedRecords, None, TRUE)
    \/ \E autoFix \in BOOLEAN : validateAndFixDnsRecordsAgain(autoFix)
    \/ \E c \in Calls : listDnsRecordsResolved(c)
    \/ \E c \in Calls : listDnsRecordsRejected(c)
    \/ \E c \in Calls : writeResolved(c)
    \/ \E c \in Calls : writeRejected(c)

SpecRepeat == Init /\ [][NextRepeat]_vars

\* the first call ran with autoFix on a desired list of distinct keys and
\* returned, and the provider applied every write it issued
FixedCleanly ==
    /\ rec[1].pc = "done" /\ rec[1].autoFix
    /\ DistinctKeys(rec[1].expectedRecords)
    /\ \A k \in 1..Len(rec[1].writes) : rec[1].writes[k].outcome = "ok"

\* C24: after a call with autoFix whose writes were all applied, on a desired
\* list of distinct keys, a second call with the same list issues no write
\* and, when its one read succeeds, returns valid with no issue.
C24_Convergence ==
    FixedCleanly =>
        /\ rec[2].writes = <<>>
        /\ rec[2].pc \in {"idle", "listing", "done", "rejected"}
        /\ rec[2].pc = "rejected" => rec[2].listed = None
        /\ rec[2].pc = "done" =>
              /\ Get(rec[2].result).valid
              /\ Get(rec[2].result).issues = <<>>
              /\ ~Get(rec[2].result).fixed

\* the first call created one record and updated another, and the second
\* call, with autoFix as well, returned
C24_Witness ==
    /\ FixedCleanly
    /\ \E k \in 1..Len(rec[1].writes) : rec[1].writes[k].op = "createDnsRecord"
    /\ \E k \in 1..Len(rec[1].writes) : rec[1].writes[k].op = "updateDnsRecord"
    /\ rec[2].pc = "done" /\ rec[2].autoFix
    /\ rec[2].expectedRecords = rec[1].expectedRecords

\* ------------------------------------------------------------------------
\* Creates and frame of one validateAndFixDnsRecords call (call 1 of Spec)
\* ------------------------------------------------------------------------
\* the positions of the write calls of the call that are creates
Creates == {k \in 1..Len(R.writes) : R.writes[k].op = "createDnsRecord"}

\* C25: one call issues at most one create per (name, type) key, whatever
\* the desired list, so it never leaves two records of one key that it
\* created itself.
C25_OneCreatePerKey ==
    /\ \A j, k \in Creates :
          Key(R.writes[j].record) = Key(R.writes[k].record) => j = k
    /\ HasListed =>
          LET created == {k \in 1..Len(zoneRecords) :
                             \A m \in 1..Len(Listed) : Listed[m].id # zoneRecords[k].id}
          IN \A j, k \in created :
                Key(zoneRecords[j]) = Key(zoneRecords[k]) => j = k

\* the write calls of the call that are updates
Updates == {k \in 1..Len(R.writes) : R.writes[k].op = "updateDnsRecord"}

\* the records read at the start whose key no desired record has
Foreign == {m \in 1..Len(Listed) : Key(Listed[m]) \notin DesiredKeys}

\* C26: the call issues creates and updates only, never a delete; every
\* update goes to the id of a record it read whose key is the key of a
\* desired record; the records it read whose key is not in the desired list
\* stay in the zone as they were, and without autoFix it issues no write
\* and the zone stays as read.
C26_Frame ==
    /\ \A k \in 1..Len(R.writes) :
          R.writes[k].op \in {"createDnsRecord", "updateDnsRecord"}
    /\ HasListed =>
          /\ \A k \in Updates :
                /\ R.writes[k].id # None
                /\ \E m \in 1..Len(Listed) :
                      /\ Listed[m].id = Get(R.writes[k].id)
                      /\ Key(Listed[m]) \in DesiredKeys
                      /\ Key(Listed[m]) = Key(R.writes[k].record)
          /\ \A m \in Foreign :
                \E k \in 1..Len(zoneRecords) : zoneRecords[k] = Listed[m]
          /\ ~R.autoFix => zoneRecords = Listed
    /\ ~R.autoFix => R.writes = <<>>

\* a call that created one record and updated another while the zone held
\* a record of a key outside the desired list, which is still there
C26_Witness ==
    /\ Returned /\ R.autoFix /\ HasListed
    /\ \E k \in Creates : R.writes[k].outcome = "ok"
    /\ \E k \in Updates : R.writes[k].outcome = "ok"
    /\ Foreign # {}
    /\ zoneRecords # Listed

\* ------------------------------------------------------------------------
\* validateConnectreeInfrastructure: the DNS validation after a rejection
\* ------------------------------------------------------------------------
\* the call rejected on a failed hosting-project or compute-deployment read
RejectedOnRequiredRead ==
    /\ infra.pc = "rejected"
    /\ \E t \in {"listPagesProjects", "listWorkers"} : infra.tasks[t].failed

\* C27: when validateConnectreeInfrastructure has rejected on a failed
\* hosting-project or compute-deployment read, it holds no result, and the
\* DNS validation it started goes on: its pending list read and its pending
\* write can still complete, and the loop still issues the writes that remain.
C27_NoCancellation ==
    RejectedOnRequiredRead =>
        /\ infra.result = None
        /\ rec[1].pc = "listing" => ENABLED listDnsRecordsResolved(1)
        /\ rec[1].pc = "writing" => ENABLED writeResolved(1)

\* with autoFix, a create or update was issued and applied after the call
\* had rejected on the failed read
C27_Witness ==
    /\ RejectedOnRequiredRead
    /\ rec[1].autoFix
    /\ Len(rec[1].writes) > infra.writesWhenRejected
    /\ rec[1].writes[Len(rec[1].writes)].outcome = "ok"

\* ------------------------------------------------------------------------
\* putSecret, bulkPutSecrets, deleteSecret
\* ------------------------------------------------------------------------
\* `wrangler secret put name` with the value piped in, as the worker sees it
applyPut(secrets, entry) ==
    {x \in secrets : x.name # entry.name} \cup {entry}

\* `wrangler secret delete name`
applyDelete(secrets, name) == {x \in secrets : x.name # name}

\* putSecret for the entry at frame.i: the command is built and handed to
\* execSync, whatever config.dryRun is; execSync returns (the secret is
\* set) or throws (the error is logged and rethrown)
putSecretStep(frame, ok) ==
    LET entry == frame.secrets[frame.i]
    IN IF ok
       THEN [frame |-> [frame EXCEPT !.pc = "awaiting",
                                     !.executed = Append(@, [command |-> "secret put",
                                                             name |-> entry.name])],
             secrets |-> applyPut(workerSecrets, entry)]
       ELSE [frame |-> [frame EXCEPT !.pc = "rejected",
                                     !.executed = Append(@, [command |-> "secret put",
                                                             name |-> entry.name])],
             secrets |-> workerSecrets]

\* a secret operation is called from outside the class, as the first
\* operation or after the one before has settled
SecretCallable ==
    /\ hc.pc = "idle" /\ infra.pc = "idle" /\ \A c \in Calls : rec[c].pc = "idle"
    /\ prep.pc = "idle" /\ report.pc = "idle" /\ bulk.pc = "idle" /\ cli.pc = "idle"
    /\ overall.pc = "idle"
    /\ put.pc \in {"idle", "done", "rejected"}

\* a call of putSecret: execSync runs inside the call
putSecret(name, value, ok) ==
    /\ SecretCallable
    /\ LET step == putSecretStep([IdlePut EXCEPT
                                     !.secrets = <<[name |-> name, value |-> value]>>,
                                     !.i = 1], ok)
       IN /\ put' = [step.frame EXCEPT !.pc = IF @ = "awaiting" THEN "done" ELSE @]
          /\ workerSecrets' = step.secrets
    /\ UNCHANGED <<config, kvNamespaces, r2Buckets, d1Databases, overall,
                   zoneRecords, account, rec, hc, infra, callers>>

\* a call of bulkPutSecrets: putSecret runs for the first entry, and its
\* promise is awaited
bulkPutSecrets(secrets, ok) ==
    /\ SecretCallable
    /\ IF secrets = <<>>
       THEN /\ put' = [IdlePut EXCEPT !.pc = "done"]
            /\ UNCHANGED workerSecrets
       ELSE LET step == putSecretStep([IdlePut EXCEPT !.secrets = secrets, !.i = 1], ok)
            IN /\ put' = step.frame
               /\ workerSecrets' = step.secrets
    /\ UNCHANGED <<config, kvNamespaces, r2Buckets, d1Databases, overall,
                   zoneRecords, account, rec, hc, infra, callers>>

\* the await of bulkPutSecrets resumed: the loop is over, or putSecret runs
\* for the next entry
putSecretAwaited(ok) ==
    /\ put.pc = "awaiting"
    /\ IF put.i + 1 > Len(put.secrets)
       THEN /\ put' = [put EXCEPT !.pc = "done", !.i = @ + 1]
            /\ UNCHANGED workerSecrets
       ELSE LET step == putSecretStep([put EXCEPT !.i = @ + 1], ok)
            IN /\ put' = step.frame
               /\ workerSecrets' = step.secrets
    /\ UNCHANGED <<config, kvNamespaces, r2Buckets, d1Databases, overall,
                   zoneRecords, account, rec, hc, infra, callers>>

\* a call of deleteSecret: executeWranglerCommand returns at once under
\* dryRun, else it runs the command, which succeeds or throws
deleteSecret(name, ok) ==
    /\ SecretCallable
    /\ IF config.dryRun
       THEN /\ put' = [IdlePut EXCEPT !.pc = "done"]
            /\ UNCHANGED workerSecrets
       ELSE /\ put' = [IdlePut EXCEPT
                          !.pc = IF ok THEN "done" ELSE "rejected",
                          !.executed = <<[command |-> "secret delete", name |-> name]>>]
            /\ workerSecrets' = IF ok THEN applyDelete(workerSecrets, name)
                                ELSE workerSecrets
    /\ UNCHANGED <<config, kvNamespaces, r2Buckets, d1Databases, overall,
                   zoneRecords, account, rec, hc, infra, callers>>

\* ------------------------------------------------------------------------
\* Specification of the writing operations under the dry-run switch: secret
\* operations one after the other, or one bulkCreateDnsRecords call
\* ------------------------------------------------------------------------
SecretNames == {"API_KEY", "JWT_SECRET"}
SecretValues == {"v1", "v2"}

\* Object.entries(secrets): the names are distinct
SecretEntries ==
    {<<>>} \cup
    {<<[name |-> n, value |-> v]>> : n \in SecretNames, v \in SecretValues} \cup
    {<<[name |-> "API_KEY", value |-> v], [name |-> "JWT_SECRET", value |-> w]>> :
        v \in SecretValues, w \in SecretValues}

NextSecrets ==
    \/ \E name \in SecretNames, value \in SecretValues, ok \in BOOLEAN :
          putSecret(name, value, ok)
    \/ \E secrets \in SecretEntries, ok \in BOOLEAN : bulkPutSecrets(secrets, ok)
    \/ \E ok \in BOOLEAN : putSecretAwaited(ok)
    \/ \E name \in SecretNames, ok \in BOOLEAN : deleteSecret(name, ok)
    \/ \E records \in ExpectedLists, zoneId \in Opt({"zone1"}) :
          bulkCreateDnsRecords(records, zoneId)
    \/ bulkWriteResolved
    \/ bulkWriteRejected
    \/ bulkDelayElapsed

SpecSecrets == Init /\ [][NextSecrets]_vars

\* C28: under dryRun no step of an operation executes a shell command or
\* changes what the provider holds: the zone, the account's resources and
\* the worker's secrets stay as they are.
C28_DryRunLeavesRemoteUntouched ==
    [][config.dryRun =>
          /\ UNCHANGED <<zoneRecords, account, stores>>
          /\ put'.executed = <<>>]_vars

\* ------------------------------------------------------------------------
\* Properties of the readiness verdicts
\* ------------------------------------------------------------------------
\* C29: a prepareDeploymentEnvironment result with ready = false carries an
\* issue or a warning, whatever the options.
C29_NegativeVerdictExplained ==
    (PrepDone /\ ~Prep.ready) =>
        (Prep.issues # <<>> \/ Prep.warnings # <<>>)

\* C30 as stated: a report is not 'failed' when the preparation result it
\* is derived from is ready, and a 'ready' report comes from a preparation
\* result that is ready and has no issue.
C30_CheckAndReportAgree ==
    ReportDone =>
        /\ Prep.ready => Report.summary.status # "failed"
        /\ Report.summary.status = "ready" => (Prep.ready /\ Prep.issues = <<>>)

\* C30, amended: when the preparation result of a report is ready, the DNS
\* and hosting checks of the report pass, readiness is at least 50, and the
\* status is 'failed' exactly when both the compute-deployment check and
\* the certificate check fail; a 'ready' report comes from a preparation
\* result that is ready and has no issue.
C30_CheckAndReportConsistent ==
    ReportDone =>
        /\ prep.options = checkOptions
        /\ Prep.ready =>
              /\ ChecksDelivered[1] /\ ChecksDelivered[2]
              /\ Report.summary.readiness >= 50
              /\ (Report.summary.status = "failed") =
                    (~ChecksDelivered[3] /\ ~ChecksDelivered[4])
        /\ Report.summary.status = "ready" => (Prep.ready /\ Prep.issues = <<>>)

\* a report of status 'failed' on an environment the preparation found
\* ready: a worker is missing (a warning) and no certificate is in place
C30_Witness ==
    /\ ReportDone
    /\ Prep.ready /\ Prep.issues = <<>> /\ Len(Prep.warnings) > 0
    /\ Report.summary.readiness = 50
    /\ Report.summary.status = "failed"

====
